---------------------------- MODULE Spec2Model ----------------------------
(***************************************************************************)
(* Model of the roma-01 trading core: the shared trading lock and the      *)
(* trading cycle of TradingAgent (agents/trading_agent.py), the open-order *)
(* sizing pipeline of _execute_open_long/_execute_open_short, and the      *)
(* trade ledger of DecisionLogger (core/decision_logger.py).               *)
(*                                                                         *)
(* Numbers.  The code computes in binary floating point; the model         *)
(* computes in exact fixed point and the input sets are chosen so that     *)
(* every quotient the pipeline takes is exact (ExactInputs).               *)
(*   money     : 1 unit = 0.0001 USD   (USD  == 10000 units)               *)
(*   quantity  : 1 unit = 0.000001     (the pipeline and the venue)        *)
(*   ledger qty: 1 unit = 1e-10        (DecisionLogger, so that its 1e-9   *)
(*               epsilon is 10 units; Ticks converts)                      *)
(*   prices    : whole USD                                                 *)
(***************************************************************************)
EXTENDS Integers, Sequences, FiniteSets, TLC

VARIABLES
    risk_in,        \* SpecRisk: the inputs of one _execute_open_* call
    risk_out,       \* SpecRisk: what the call did with them
    open_positions, \* DecisionLogger.open_positions of each agent, keyed by <<symbol, side>>
    trade_history,  \* DecisionLogger.trade_history of each agent
    now,            \* the clock datetime.now() reads
    entry_log,      \* history: per agent and key, what happened to the entry now open
    locked,         \* AgentManager.trading_lock: asyncio.Lock._locked
    waiters,        \* AgentManager.trading_lock: the tasks queued in acquire(), in order
    pc,             \* where each agent's task stands
    is_running,     \* TradingAgent.is_running
    stopping,       \* AgentManager.stop_all has reached this agent
    cycle_count,    \* TradingAgent.cycle_count
    n_decisions,    \* len(decisions) of the running cycle
    next_intent,    \* position in decisions the for loop has reached
    cur,            \* locals of the _execute_* call in progress
    cycle_account,  \* trading_cycle's local `account`
    last_account_snapshot, \* TradingAgent.last_account_snapshot
    venue,          \* the exchange account the agents share
    hist,           \* history: per agent, how cycles and intents ended
    store,          \* DecisionLogger of each agent: equity history, cash-flow state, files
    store_log,      \* SpecStore: history of the logger's process and files
    close_in,       \* SpecClose: the inputs of one _execute_close call
    close_out       \* SpecClose: what the call did with them

riskVars == <<risk_in, risk_out>>
ledgerVars == <<open_positions, trade_history, now, entry_log>>
lockVars == <<locked, waiters>>
agentVars == <<pc, is_running, stopping, cycle_count, n_decisions, next_intent, cur,
               cycle_account, last_account_snapshot, hist>>
cycleVars == <<lockVars, agentVars, venue>>
storeVars == <<store, store_log>>
closeVars == <<close_in, close_out>>
vars == <<riskVars, ledgerVars, cycleVars, storeVars, closeVars>>

---------------------------------------------------------------------------
(* Units *)

USD == 100 * 100              \* money units per dollar
CENT == USD \div 100
QTY == 1000 * 1000            \* quantity units per contract

\* floor(a * b / c) for a, b >= 0, c > 0 without forming a * b
MulDiv(a, b, c) == (a \div c) * b + ((a % c) * b) \div c

\* a * b is a multiple of c
Divides(a, b, c) == ((a % c) * b) % c = 0

Abs(x) == IF x < 0 THEN -x ELSE x

Min(a, b) == IF a < b THEN a ELSE b

Max(a, b) == IF a > b THEN a ELSE b

\* n / d rounded to the nearest integer, ties to even (Python round), n >= 0, d > 0
RoundHalfEven(n, d) ==
    LET q == n \div d
        r == n % d
    IN  IF 2 * r < d THEN q
        ELSE IF 2 * r > d THEN q + 1
        ELSE IF q % 2 = 0 THEN q ELSE q + 1

---------------------------------------------------------------------------
(* Risk configuration defaults and pipeline constants *)

DEFAULT_MAX_SINGLE_TRADE_PCT == 50
DEFAULT_MAX_SINGLE_TRADE_WITH_POSITIONS_PCT == 30
DEFAULT_MAX_TOTAL_POSITION_PCT == 80
DEFAULT_MAX_POSITIONS == 3
DEFAULT_MAX_LEVERAGE == 10

\* quantity < 0.001
MIN_QUANTITY == 1000

\* remaining < 0.1
MIN_REMAINING == 1000

DefaultRisk ==
    [max_single_trade_pct |-> DEFAULT_MAX_SINGLE_TRADE_PCT,
     max_single_trade_with_positions_pct |-> DEFAULT_MAX_SINGLE_TRADE_WITH_POSITIONS_PCT,
     max_total_position_pct |-> DEFAULT_MAX_TOTAL_POSITION_PCT,
     max_positions |-> DEFAULT_MAX_POSITIONS,
     max_leverage |-> DEFAULT_MAX_LEVERAGE]

---------------------------------------------------------------------------
(* _execute_open_long / _execute_open_short: the sizing pipeline.          *)
(* positions is the list get_positions() returned, account the dict        *)
(* get_account_balance() returned, price what get_market_price returned.   *)

\* max_trade_pct: the conservative limit when positions is non-empty
MaxTradePct(positions, risk) ==
    IF Len(positions) > 0
    THEN risk.max_single_trade_with_positions_pct
    ELSE risk.max_single_trade_pct

\* max_trade_amount = available * (max_trade_pct / 100)
MaxTradeAmount(available, max_trade_pct) == (available * max_trade_pct) \div 100

\* Mutant: the comparison is inverted, so a small request is raised to the ceiling
SingleTradeClampInverted(position_size_usd, max_trade_amount) ==
    IF position_size_usd < max_trade_amount THEN max_trade_amount ELSE position_size_usd

\* if position_size_usd > max_trade_amount: position_size_usd = max_trade_amount
SingleTradeClamp(position_size_usd, max_trade_amount) ==
    IF position_size_usd > max_trade_amount THEN max_trade_amount ELSE position_size_usd

\* abs(position_amt) * entry_price / leverage of one position, in money units
PositionMargin(p) == MulDiv(Abs(p.position_amt), p.entry_price, p.leverage * (QTY \div USD))

RECURSIVE SumMargin(_)
SumMargin(positions) ==
    IF positions = <<>> THEN 0
    ELSE PositionMargin(Head(positions)) + SumMargin(Tail(positions))

\* total_margin_used = sum(... for p in positions)
TotalMarginUsed(positions) == SumMargin(positions)

\* max_total_margin = total_wallet_balance * (max_total_pct / 100)
MaxTotalMargin(total_wallet_balance, max_total_pct) ==
    (total_wallet_balance * max_total_pct) \div 100

\* Mutant: the open is never rejected here, the margin is set to what remains
TotalLimitNeverRejects(position_size_usd, total_margin_used, max_total_margin) ==
    IF total_margin_used + position_size_usd > max_total_margin
    THEN [reject |-> FALSE, position_size_usd |-> max_total_margin - total_margin_used]
    ELSE [reject |-> FALSE, position_size_usd |-> position_size_usd]

\* The total position limit: reject when less than $0.1 remains, else clamp to it
TotalLimit(position_size_usd, total_margin_used, max_total_margin) ==
    IF total_margin_used + position_size_usd > max_total_margin
    THEN LET remaining == max_total_margin - total_margin_used
         IN  IF remaining < MIN_REMAINING
             THEN [reject |-> TRUE, position_size_usd |-> position_size_usd]
             ELSE [reject |-> FALSE, position_size_usd |-> remaining]
    ELSE [reject |-> FALSE, position_size_usd |-> position_size_usd]

\* quantity = position_size_usd * leverage / price, in quantity units
Quantity(position_size_usd, leverage, price) ==
    MulDiv(position_size_usd * leverage, QTY \div USD, price)

\* min_margin_needed = quantity * price / leverage, in money units
MarginOf(quantity, price, leverage) ==
    MulDiv(quantity, price, leverage * (QTY \div USD))

\* Mutant: a minimum order that takes the whole available balance is refused
MinQuantityChecksStrict(min_margin_needed, available, max_trade_amount) ==
    IF min_margin_needed >= available THEN "min_unaffordable"
    ELSE IF min_margin_needed > max_trade_amount THEN "min_exceeds_limit"
    ELSE "ok"

\* The checks made after the quantity was raised to the minimum
MinQuantityChecks(min_margin_needed, available, max_trade_amount) ==
    IF min_margin_needed > available THEN "min_unaffordable"
    ELSE IF min_margin_needed > max_trade_amount THEN "min_exceeds_limit"
    ELSE "ok"

\* estimated_formatted_qty = round(quantity * 0.95, 3), in quantity units
EstimatedFormattedQty(quantity) ==
    RoundHalfEven(quantity * 19, 20 * (QTY \div 1000)) * (QTY \div 1000)

\* The whole pipeline up to the order submission
OpenPlan(decision, account, positions, price, risk) ==
    LET available == account.available_balance
        max_trade_amount == MaxTradeAmount(available, MaxTradePct(positions, risk))
        size1 == SingleTradeClamp(decision.position_size_usd, max_trade_amount)
        total_margin_used == TotalMarginUsed(positions)
        max_total_margin ==
            MaxTotalMargin(account.total_wallet_balance, risk.max_total_position_pct)
        lim == TotalLimit(size1, total_margin_used, max_total_margin)
        size2 == lim.position_size_usd
        below_min == size2 * decision.leverage < (MIN_QUANTITY \div (QTY \div USD)) * price
        quantity == IF below_min THEN MIN_QUANTITY
                    ELSE Quantity(size2, decision.leverage, price)
        min_margin_needed == MarginOf(MIN_QUANTITY, price, decision.leverage)
        min_check == IF below_min
                     THEN MinQuantityChecks(min_margin_needed, available, max_trade_amount)
                     ELSE "ok"
        size3 == IF below_min THEN min_margin_needed ELSE size2
        estimated_formatted_qty == EstimatedFormattedQty(quantity)
        required_margin == MarginOf(estimated_formatted_qty, price, decision.leverage)
        status == IF lim.reject THEN "total_limit"
                  ELSE IF min_check # "ok" THEN min_check
                  ELSE IF required_margin > available THEN "final_check"
                  ELSE "admitted"
    IN  [status |-> status,
         requested |-> decision.position_size_usd,
         after_single_trade |-> size1,
         after_total_limit |-> size2,
         position_size_usd |-> IF lim.reject THEN size1 ELSE size3,
         quantity |-> quantity,
         leverage |-> decision.leverage,
         price |-> price,
         min_adjusted |-> (~lim.reject) /\ below_min,
         max_trade_amount |-> max_trade_amount,
         total_margin_used |-> total_margin_used,
         max_total_margin |-> max_total_margin,
         estimated_formatted_qty |-> estimated_formatted_qty,
         required_margin |-> required_margin]

---------------------------------------------------------------------------
(* DecisionLogger: the open-position map and the trade history.            *)
(* Ledger quantities are in ticks of 1e-10; an absent optional argument    *)
(* (None) is the empty sequence, a present one a one-element sequence.     *)

Agents == {"a1", "a2"}
Symbols == {"BTCUSDT"}
Sides == {"long", "short"}

\* key = f"{symbol}_{side}"
Key(symbol, side) == <<symbol, side>>
Keys == {Key(sy, sd) : sy \in Symbols, sd \in Sides}

TICKS_PER_QTY_UNIT == 100 * 100
Ticks(quantity) == quantity * TICKS_PER_QTY_UNIT

\* remaining_quantity <= 1e-9
QTY_EPSILON == 10

None == <<>>
Some(x) == <<x>>

\* record_open_position: the entry under key is created or replaced
RecordOpenPosition(positions, symbol, side, entry_price, quantity, leverage, time) ==
    [k \in DOMAIN positions \cup {Key(symbol, side)} |->
        IF k = Key(symbol, side)
        THEN [symbol |-> symbol, side |-> side, entry_price |-> entry_price,
              quantity |-> quantity, leverage |-> leverage, open_time |-> time]
        ELSE positions[k]]

\* Mutant: the requested quantity is not clamped to the open quantity
CloseQuantityUnclamped(open_quantity, quantity) ==
    IF quantity = None THEN open_quantity ELSE Max(0, quantity[1])

\* close_quantity = open_quantity if quantity is None else min(open_quantity, max(0.0, quantity))
CloseQuantity(open_quantity, quantity) ==
    IF quantity = None THEN open_quantity
    ELSE Min(open_quantity, Max(0, quantity[1]))

\* Mutant: the long formula is used for both sides
PnlUsdtLongOnly(side, entry_price, close_price, close_quantity, leverage) ==
    (close_price - entry_price) * close_quantity * leverage

\* pnl_usdt of a close, by side
PnlUsdt(side, entry_price, close_price, close_quantity, leverage) ==
    IF side = "long"
    THEN (close_price - entry_price) * close_quantity * leverage
    ELSE (entry_price - close_price) * close_quantity * leverage

\* The entry map after close_quantity was closed under key
\* Mutant: the entry is deleted only when nothing at all is left of it
AfterCloseKeepsRemainder(positions, key, close_quantity) ==
    LET remaining_quantity == positions[key].quantity - close_quantity
    IN  IF remaining_quantity <= 0
        THEN [k \in DOMAIN positions \ {key} |-> positions[k]]
        ELSE [positions EXCEPT ![key].quantity = remaining_quantity]

AfterClose(positions, key, close_quantity) ==
    LET remaining_quantity == positions[key].quantity - close_quantity
    IN  IF remaining_quantity <= QTY_EPSILON
        THEN [k \in DOMAIN positions \ {key} |-> positions[k]]
        ELSE [positions EXCEPT ![key].quantity = remaining_quantity]

\* record_close_position: the new map, the new history and the returned trade
RecordClosePosition(positions, history, symbol, side, close_price, quantity, time) ==
    LET key == Key(symbol, side)
        unchanged == [open_positions |-> positions, trade_history |-> history,
                      trade |-> None]
    IN  IF key \notin DOMAIN positions THEN unchanged
        ELSE LET open_pos == positions[key]
                 close_quantity == CloseQuantity(open_pos.quantity, quantity)
                 trade == [symbol |-> symbol, side |-> side,
                           entry_price |-> open_pos.entry_price,
                           close_price |-> close_price,
                           quantity |-> close_quantity,
                           leverage |-> open_pos.leverage,
                           open_time |-> open_pos.open_time,
                           close_time |-> time,
                           pnl_usdt |-> PnlUsdt(side, open_pos.entry_price, close_price,
                                                close_quantity, open_pos.leverage)]
             IN  IF close_quantity <= 0 THEN unchanged
                 ELSE [open_positions |-> AfterClose(positions, key, close_quantity),
                       trade_history |-> Append(history, trade),
                       trade |-> Some(trade)]

\* History of the entry now (or last) open under a key: the quantity it was
\* opened with, the quantities asked of record_close_position since, and the
\* quantities of the ClosedTrades appended for it; opened_total is the sum
\* of the quantities of all record_open_position calls for the key
NoEntryLog == [opened |-> 0, requested |-> 0, closed |-> 0, calls |-> 0,
               last_open |-> 0, last_requested |-> None, last_closed |-> 0,
               opened_total |-> 0]

LogOpen(quantity) == [NoEntryLog EXCEPT !.opened = quantity]

\* record_open_position for a key whose history so far is log
LogOpenOn(log, quantity) ==
    [LogOpen(quantity) EXCEPT !.opened_total = log.opened_total + quantity]

LogClose(log, open_quantity, quantity, result) ==
    [opened |-> log.opened,
     requested |-> log.requested
                     + (IF quantity = None THEN open_quantity ELSE Max(0, quantity[1])),
     closed |-> log.closed + (IF result.trade = None THEN 0 ELSE result.trade[1].quantity),
     calls |-> log.calls + 1,
     last_open |-> open_quantity,
     last_requested |-> quantity,
     last_closed |-> IF result.trade = None THEN 0 ELSE result.trade[1].quantity,
     opened_total |-> log.opened_total]

---------------------------------------------------------------------------
(* What a DecisionLogger keeps besides the two ledger maps: the equity    *)
(* history, the cash-flow runtime state and its three files. A file is    *)
(* absent, holds what the last completed json.dump wrote ("ok"), or was   *)
(* truncated by open(..., "w") and not written to the end ("torn").       *)
(* An equity entry is its fields and the set of keys its dict has; a      *)
(* field whose key is absent reads 0.                                     *)

NoFile == [state |-> "absent", content |-> <<>>]

\* with open(path, "w") as f: json.dump(content, f): the write completes,
\* raises before the file is opened, or stops after the truncation
WriteFile(file, content, outcome) ==
    CASE outcome = "ok" -> [state |-> "ok", content |-> content]
      [] outcome = "unopened" -> file
      [] OTHER -> [state |-> "torn", content |-> NoFile.content]

WriteOutcomes == {"ok", "unopened", "torn"}

\* json.load of a file that exists: a torn file does not parse
Parses(file) == file.state = "ok"

EquityKeys ==
    {"cycle", "equity", "adjusted_equity", "gross_equity", "unrealized_pnl",
     "pnl", "net_deposits", "external_cash_flow"}

NoEntry ==
    [keys |-> {}, cycle |-> 0, equity |-> 0, adjusted_equity |-> 0,
     gross_equity |-> 0, unrealized_pnl |-> 0, pnl |-> 0, net_deposits |-> 0,
     external_cash_flow |-> 0]

\* dict.get(key, default)
Get(entry, key, default) == IF key \in entry.keys THEN entry[key] ELSE default

\* dict[key] = value
Put(entry, key, value) == [entry EXCEPT ![key] = value, !.keys = @ \cup {key}]

\* if key not in dict: dict[key] = value
PutIfAbsent(entry, key, value) ==
    IF key \in entry.keys THEN entry ELSE Put(entry, key, value)

\* Mutant: equity is rebuilt from gross_equity, whatever was stored
EnsureEquityEntryFieldsGross(entry) ==
    LET n1 == PutIfAbsent(entry, "unrealized_pnl", Get(entry, "pnl", 0))
        n2 == PutIfAbsent(n1, "pnl", Get(n1, "unrealized_pnl", 0))
        n3 == PutIfAbsent(n2, "net_deposits", 0)
        n4 == PutIfAbsent(n3, "external_cash_flow", 0)
        n5 == PutIfAbsent(n4, "gross_equity", Get(n4, "equity", 0))
        n6 == PutIfAbsent(n5, "adjusted_equity",
                          Get(n5, "equity", 0) - Get(n5, "net_deposits", 0))
    IN  Put(n6, "equity", Get(n6, "gross_equity", 0))

\* _ensure_equity_entry_fields
EnsureEquityEntryFields(entry) ==
    LET n1 == PutIfAbsent(entry, "unrealized_pnl", Get(entry, "pnl", 0))
        n2 == PutIfAbsent(n1, "pnl", Get(n1, "unrealized_pnl", 0))
        n3 == PutIfAbsent(n2, "net_deposits", 0)
        n4 == PutIfAbsent(n3, "external_cash_flow", 0)
        n5 == PutIfAbsent(n4, "gross_equity", Get(n4, "equity", 0))
        n6 == PutIfAbsent(n5, "adjusted_equity",
                          Get(n5, "equity", 0) - Get(n5, "net_deposits", 0))
    IN  Put(n6, "equity", Get(n6, "adjusted_equity", Get(n6, "equity", 0)))

\* CASH_FLOW_EPSILON = 1e-6, in millionths of a dollar
CASH_FLOW_EPSILON == 1
MICRO_USD_PER_MONEY_UNIT == (1000 * 1000) \div USD

\* pnl_usdt of the ledger (price x ticks x leverage) in money units
PNL_PER_MONEY_UNIT == TICKS_PER_QTY_UNIT * (QTY \div USD)
PnlMoney(trade) == trade.pnl_usdt \div PNL_PER_MONEY_UNIT

RECURSIVE SumPnl(_, _)
\* sum(t.get("pnl_usdt", 0.0) for t in trade_history[from:])
SumPnl(history, from) ==
    IF from >= Len(history) THEN 0
    ELSE PnlMoney(history[from + 1]) + SumPnl(history, from + 1)

NoCashFlowState ==
    [net_deposits |-> 0, last_equity |-> None, last_unrealized |-> None,
     last_external_cash_flow |-> 0]

NoCashFlowFile == [state |-> "absent", content |-> NoCashFlowState]

NoStore ==
    [equity_history |-> <<>>,
     net_deposits |-> 0,
     last_equity |-> None,
     last_unrealized |-> None,
     last_logged_trade_index |-> 0,
     last_external_cash_flow |-> 0,
     trades_file |-> NoFile,
     equity_file |-> NoFile,
     cash_flow_file |-> NoCashFlowFile]

\* _save_trade_history: whatever the write raises is caught and logged
SaveTradeHistory(st, history, outcome) ==
    [st EXCEPT !.trades_file = WriteFile(@, history, outcome)]

\* _save_equity_history: whatever the write raises is caught and logged
SaveEquityHistory(st, outcome) ==
    [st EXCEPT !.equity_file = WriteFile(@, st.equity_history, outcome)]

\* _save_cash_flow_state: whatever the write raises is caught and logged
SaveCashFlowState(st, outcome) ==
    [st EXCEPT !.cash_flow_file =
        CASE outcome = "ok" ->
               [state |-> "ok",
                content |-> [net_deposits |-> st.net_deposits,
                             last_equity |-> st.last_equity,
                             last_unrealized |-> st.last_unrealized,
                             last_external_cash_flow |-> st.last_external_cash_flow]]
          [] outcome = "unopened" -> @
          [] OTHER -> [state |-> "torn", content |-> NoCashFlowState]]

\* Mutant: the trade history is saved whatever record_close_position returns
SaveAfterCloseAlways(st, result, outcome) ==
    SaveTradeHistory(st, result.trade_history, outcome)

\* record_close_position reaches _save_trade_history only after it appended
\* a trade; the returns before that write nothing
SaveAfterClose(st, result, outcome) ==
    IF result.trade = None THEN st
    ELSE SaveTradeHistory(st, result.trade_history, outcome)

\* Mutant: the realized PnL since the last log is left in the cash flow
CashFlowKeepsRealized(st, history, account) ==
    LET realized_change == SumPnl(history, st.last_logged_trade_index)
        raw == (account.total_wallet_balance - st.last_equity[1])
                 - (account.total_unrealized_profit
                      - (IF st.last_unrealized = None THEN 0 ELSE st.last_unrealized[1]))
        external_cash_flow ==
            IF st.last_equity = None THEN 0
            ELSE IF Abs(raw) * MICRO_USD_PER_MONEY_UNIT < CASH_FLOW_EPSILON THEN 0
            ELSE raw
    IN  [realized_change |-> realized_change,
         external_cash_flow |-> external_cash_flow,
         net_deposits |-> st.net_deposits + external_cash_flow]

\* log_decision up to the write of the decision file: the realized PnL
\* since the last log, the external cash flow and the new net deposits
CashFlow(st, history, account) ==
    LET current_equity == account.total_wallet_balance
        current_unrealized == account.total_unrealized_profit
        realized_change == SumPnl(history, st.last_logged_trade_index)
        equity_delta == current_equity - st.last_equity[1]
        unrealized_delta ==
            current_unrealized
              - (IF st.last_unrealized = None THEN 0 ELSE st.last_unrealized[1])
        raw == equity_delta - realized_change - unrealized_delta
        external_cash_flow ==
            IF st.last_equity = None THEN 0
            ELSE IF Abs(raw) * MICRO_USD_PER_MONEY_UNIT < CASH_FLOW_EPSILON THEN 0
            ELSE raw
    IN  [realized_change |-> realized_change,
         external_cash_flow |-> external_cash_flow,
         net_deposits |-> st.net_deposits + external_cash_flow]

\* log_decision when the write of the decision file raises: the net
\* deposits are already updated, nothing else is
LogDecisionRaised(st, history, account) ==
    [st EXCEPT !.net_deposits = CashFlow(st, history, account).net_deposits]

\* log_decision when the decision file is written: the runtime state moves
\* on, the equity entry is appended, the two saves follow
LogDecision(st, history, cycle, account, equity_outcome, cash_outcome) ==
    LET flow == CashFlow(st, history, account)
        current_equity == account.total_wallet_balance
        current_unrealized == account.total_unrealized_profit
        adjusted_equity == current_equity - flow.net_deposits
        entry == [keys |-> EquityKeys, cycle |-> cycle,
                  equity |-> adjusted_equity,
                  adjusted_equity |-> adjusted_equity,
                  gross_equity |-> current_equity,
                  unrealized_pnl |-> current_unrealized,
                  pnl |-> current_unrealized,
                  net_deposits |-> flow.net_deposits,
                  external_cash_flow |-> flow.external_cash_flow]
        updated == [st EXCEPT !.net_deposits = flow.net_deposits,
                              !.last_equity = Some(current_equity),
                              !.last_unrealized = Some(current_unrealized),
                              !.last_logged_trade_index = Len(history),
                              !.last_external_cash_flow = flow.external_cash_flow,
                              !.equity_history = Append(@, entry)]
    IN  SaveCashFlowState(SaveEquityHistory(updated, equity_outcome), cash_outcome)

\* log_remote_strategy: an entry of cycle, equity and pnl only; the equity
\* history is saved, the cash-flow state is not touched
LogRemoteStrategy(st, cycle, account, equity_outcome) ==
    LET entry == [NoEntry EXCEPT !.keys = {"cycle", "equity", "pnl"},
                                 !.cycle = cycle,
                                 !.equity = account.total_wallet_balance,
                                 !.pnl = account.total_unrealized_profit]
    IN  SaveEquityHistory([st EXCEPT !.equity_history = Append(@, entry)],
                          equity_outcome)

\* _load_history, trade part: the file's list, or [] when the file is
\* absent or does not parse
LoadTradeHistory(st) ==
    IF Parses(st.trades_file) THEN st.trades_file.content ELSE <<>>

\* _load_history, equity part: the file's entries, each normalised
LoadEquityHistory(st) ==
    IF Parses(st.equity_file)
    THEN [i \in DOMAIN st.equity_file.content |->
             EnsureEquityEntryFields(st.equity_file.content[i])]
    ELSE <<>>

\* _load_cash_flow_state over the defaults of __init__
LoadCashFlowState(st) ==
    IF Parses(st.cash_flow_file) THEN st.cash_flow_file.content ELSE NoCashFlowState

\* _initialize_runtime_state on what the three loads produced
InitializeRuntimeState(history, equity_history, cash) ==
    IF equity_history = <<>>
    THEN cash
    ELSE LET last_entry == equity_history[Len(equity_history)]
         IN  [net_deposits |->
                  IF "net_deposits" \in last_entry.keys
                  THEN last_entry.net_deposits ELSE cash.net_deposits,
              last_equity |->
                  IF cash.last_equity # None THEN cash.last_equity
                  ELSE IF "equity" \in last_entry.keys
                       THEN Some(last_entry.equity) ELSE None,
              last_unrealized |->
                  IF cash.last_unrealized # None THEN cash.last_unrealized
                  ELSE Some(Get(last_entry, "unrealized_pnl",
                                Get(last_entry, "pnl", 0))),
              last_external_cash_flow |->
                  IF "external_cash_flow" \in last_entry.keys
                  THEN last_entry.external_cash_flow
                  ELSE cash.last_external_cash_flow]

\* DecisionLogger.__init__ on the files a previous instance left
Constructed(st) ==
    LET history == LoadTradeHistory(st)
        equity_history == LoadEquityHistory(st)
        runtime == InitializeRuntimeState(history, equity_history,
                                          LoadCashFlowState(st))
    IN  [equity_history |-> equity_history,
         net_deposits |-> runtime.net_deposits,
         last_equity |-> runtime.last_equity,
         last_unrealized |-> runtime.last_unrealized,
         last_logged_trade_index |-> Len(history),
         last_external_cash_flow |-> runtime.last_external_cash_flow,
         trades_file |-> st.trades_file,
         equity_file |-> st.equity_file,
         cash_flow_file |-> st.cash_flow_file]

\* History of the logger's process and files
NoStoreLog ==
    [last_op |-> "none",        \* the method called last
     returned |-> "none",       \* it returned ("ok"), raised, or the process died
     faults |-> 0,              \* saves that failed or were cut short so far
     down |-> FALSE,            \* the process is dead
     venue_open |-> FALSE,      \* the venue holds the position of StoreKey
     recovered |-> FALSE,       \* the last call was a restart after the process died
     appended |-> <<>>,         \* close_time of every trade ever appended, with
                                \* the number of realized_change sums it was in
     durable_trades |-> <<>>,   \* trades_file's content when the last save began
     durable_equity |-> <<>>,   \* equity_file's content when the last save began
     prev |-> NoCashFlowState]  \* the runtime state the last process ended with

StoreIdle ==
    /\ store = [a \in Agents |-> NoStore]
    /\ store_log = NoStoreLog

CloseIdle ==
    /\ close_in = [status |-> "unused"]
    /\ close_out = [status |-> "unused"]

---------------------------------------------------------------------------
(* The exchange account the agents share. Orders fill when accepted; the   *)
(* venue rounds the quantity to the symbol's step (0.001) as               *)
(* AsterToolkit._format_value does before it sends the order.              *)

STEP_SIZE == QTY \div 1000

VenuePrices == {50000}

\* _format_value with a step: round(value / step) * step
FormatValue(value, step) == RoundHalfEven(value, step) * step

NoPosition == [position_amt |-> 0, entry_price |-> 0, leverage |-> 1]

VenueInit ==
    [available_balance |-> 100 * USD,
     total_wallet_balance |-> 100 * USD,
     positions |-> [k \in Keys |-> NoPosition]]

\* get_account_balance: the two balances the agents read
GetAccountBalance(v) ==
    [available_balance |-> v.available_balance,
     total_wallet_balance |-> v.total_wallet_balance]

KeyOrder == <<Key("BTCUSDT", "long"), Key("BTCUSDT", "short")>>

\* get_positions: the positions whose amount is not zero, as a list
RECURSIVE PositionsFrom(_, _)
PositionsFrom(v, i) ==
    IF i > Len(KeyOrder) THEN <<>>
    ELSE LET k == KeyOrder[i]
             p == v.positions[k]
             rest == PositionsFrom(v, i + 1)
         IN  IF p.position_amt = 0 THEN rest
             ELSE <<[symbol |-> k[1], side |-> k[2],
                     position_amt |-> Abs(p.position_amt),
                     entry_price |-> p.entry_price,
                     leverage |-> p.leverage]>> \o rest

GetPositions(v) == PositionsFrom(v, 1)

\* The margin the venue takes for an order of `quantity` as the agent sent it
OrderMargin(quantity, price, leverage) ==
    MarginOf(FormatValue(quantity, STEP_SIZE), price, leverage)

\* The venue accepts an opening order only while the free balance covers it
VenueAccepts(v, quantity, price, leverage) ==
    /\ FormatValue(quantity, STEP_SIZE) > 0
    /\ OrderMargin(quantity, price, leverage) <= v.available_balance

\* open_long / open_short accepted: the position grows, the margin is taken
VenueOpen(v, symbol, side, quantity, price, leverage) ==
    LET k == Key(symbol, side)
        qty == FormatValue(quantity, STEP_SIZE)
    IN  [v EXCEPT !.available_balance = @ - OrderMargin(quantity, price, leverage),
                  !.positions[k] = [position_amt |-> @.position_amt + qty,
                                    entry_price |-> price,
                                    leverage |-> leverage]]

\* close_position: target_qty = position_amt if quantity is None
\*                 else min(abs(quantity), position_amt)
TargetQty(position_amt, quantity) ==
    IF quantity = None THEN position_amt ELSE Min(Abs(quantity[1]), position_amt)

\* close_position accepted: the position shrinks, its margin is returned
VenueClose(v, symbol, side, target_qty) ==
    LET k == Key(symbol, side)
        p == v.positions[k]
        qty == Min(FormatValue(target_qty, STEP_SIZE), p.position_amt)
        left == p.position_amt - qty
    IN  [v EXCEPT !.available_balance = @ + MarginOf(qty, p.entry_price, p.leverage),
                  !.positions[k] = IF left = 0 THEN NoPosition
                                   ELSE [p EXCEPT !.position_amt = left]]

---------------------------------------------------------------------------
(* The trading lock. asyncio.Lock: a flag and a FIFO queue of waiters; a   *)
(* release clears the flag and wakes the head of the queue, which takes    *)
(* the lock when it next runs; acquire() takes a free lock at once only    *)
(* when nobody is queued.                                                  *)

ManagerLock == "manager"
Locks == {ManagerLock} \cup Agents

\* Mutant: the agent was built without the manager's lock and made its own
OwnLock(a) == a

\* TradingAgent.trading_lock of an agent the AgentManager constructed
TradingLock(a) == ManagerLock

\* Mutant: acquire() takes a free lock although tasks are queued for it
CanTakeAtOnceBarging(is_locked, queue) == ~is_locked

\* asyncio.Lock.acquire, the path that does not wait: the lock is free and
\* no task is queued
CanTakeAtOnce(is_locked, queue) == ~is_locked /\ queue = <<>>

\* Mutant: leaving the `async with` block keeps the lock
ReleaseSkipped(lk, l) == lk

\* __aexit__ of `async with self.trading_lock`
Release(lk, l) == [lk EXCEPT ![l] = FALSE]

RECURSIVE Without(_, _)
Without(queue, a) ==
    IF queue = <<>> THEN <<>>
    ELSE IF Head(queue) = a THEN Without(Tail(queue), a)
    ELSE <<Head(queue)>> \o Without(Tail(queue), a)

---------------------------------------------------------------------------
(* The decisions an oracle answer can hold. `keys` are the fields the      *)
(* JSON object has; an element that is not an object has is_dict FALSE.    *)

\* Cycles the agents start between them, and decisions in one answer
MaxCycles == 2
MaxBatch == 2

OpenKeys == {"action", "symbol", "leverage", "position_size_usd"}

Decision(is_dict, action, keys) ==
    [is_dict |-> is_dict, action |-> action, keys |-> keys,
     symbol |-> "BTCUSDT", leverage |-> 5, position_size_usd |-> 80 * USD]

Decisions ==
    {Decision(TRUE, "open_long", OpenKeys),
     Decision(TRUE, "close_long", {"action", "symbol"}),
     Decision(TRUE, "hold", {"action"}),
     Decision(TRUE, "open_long", OpenKeys \ {"leverage"}),
     Decision(FALSE, "none", {})}

\* _parse_decisions: the list the JSON array decodes to, or [] when the
\* answer holds no array or does not parse. The list is arbitrary, so the
\* model keeps its length and draws each element when the loop reaches it.
DecisionListLengths == 0..MaxBatch

\* The oracle's answer as tokens: the brackets and the comma of JSON, "d" a
\* JSON value that is no array (an object, a number, a string), "x" text
\* that is no JSON
MaxTextLen == 3
ShortTokens == {"[", "]", "d", "x"}
LongTexts ==
    {<<"[", "d", ",", "d", "]">>,
     <<"x", "[", "d", "]", "x">>,
     <<"[", "d", "]", "x", "[", "d", "]">>,
     <<"[", "d", ",", "]">>,
     <<"[", "d", "d", "]">>,
     <<"]", "d", "[", "d">>}
OracleTexts ==
    UNION {[1..n -> ShortTokens] : n \in 0..MaxTextLen} \cup LongTexts

JsonFail == [ok |-> FALSE, next |-> 0, list |-> <<>>]

RECURSIVE JsonValue(_, _)
RECURSIVE JsonElements(_, _, _)
\* json's decoder at text[i]: the position after the value that starts
\* there and, for an array, the first token of each of its elements
JsonValue(text, i) ==
    IF i > Len(text) THEN JsonFail
    ELSE IF text[i] = "d" THEN [ok |-> TRUE, next |-> i + 1, list |-> <<>>]
    ELSE IF text[i] = "[" THEN
        IF i + 1 <= Len(text) /\ text[i + 1] = "]"
        THEN [ok |-> TRUE, next |-> i + 2, list |-> <<>>]
        ELSE JsonElements(text, i + 1, <<>>)
    ELSE JsonFail

\* The elements of an array from text[i] on, after those already seen
JsonElements(text, i, seen) ==
    LET v == JsonValue(text, i)
    IN  IF ~v.ok \/ v.next > Len(text) THEN JsonFail
        ELSE IF text[v.next] = "," THEN
            JsonElements(text, v.next + 1, Append(seen, text[i]))
        ELSE IF text[v.next] = "]" THEN
            [ok |-> TRUE, next |-> v.next + 1, list |-> Append(seen, text[i])]
        ELSE JsonFail

\* json.loads: the whole text is one value, or it raises
JsonLoads(text) ==
    LET v == JsonValue(text, 1)
    IN  IF v.ok /\ v.next = Len(text) + 1 THEN v ELSE JsonFail

\* str.find and str.rfind + 1 on positions from 1: 0 when tok is not found
Find(text, tok) ==
    IF \E i \in DOMAIN text : text[i] = tok
    THEN CHOOSE i \in DOMAIN text :
            text[i] = tok /\ \A j \in 1..(i - 1) : text[j] # tok
    ELSE 0

RFindEnd(text, tok) ==
    IF \E i \in DOMAIN text : text[i] = tok
    THEN CHOOSE i \in DOMAIN text :
            text[i] = tok /\ \A j \in (i + 1)..Len(text) : text[j] # tok
    ELSE 0

\* Mutant: a slice that does not decode is returned as the one decision
ParseDecisionsKeepsSlice(text) ==
    LET start == Find(text, "[")
        end == RFindEnd(text, "]")
        loaded == JsonLoads(SubSeq(text, start, end))
    IN  IF start = 0 \/ end = 0 THEN <<>>
        ELSE IF loaded.ok THEN loaded.list
        ELSE <<"x">>

\* _parse_decisions: the slice from the first "[" to the last "]" decoded;
\* [] when a bracket is missing or json.loads raises
ParseDecisions(text) ==
    LET start == Find(text, "[")
        end == RFindEnd(text, "]")
        loaded == JsonLoads(SubSeq(text, start, end))
    IN  IF start = 0 \/ end = 0 THEN <<>>
        ELSE IF loaded.ok THEN loaded.list
        ELSE <<>>

\* Some part of the text is a JSON array
HoldsArray(text) ==
    \E i \in DOMAIN text : \E j \in i..Len(text) :
        text[i] = "[" /\ JsonLoads(SubSeq(text, i, j)).ok

---------------------------------------------------------------------------
(* The agents' tasks. pc is the point a task is suspended at:              *)
(*   init      created by start_all, not yet run                           *)
(*   loop      at the `while self.is_running` test of start()              *)
(*   waiting   queued in trading_lock.acquire()                            *)
(*   cleanup .. close_submit   the awaits inside the locked block          *)
(*   dispatch  between two decisions in _execute_decisions                 *)
(*   sleep     in asyncio.sleep(scan_interval)                             *)
(*   done      start() returned;  cancelled   the task was cancelled       *)

LockedPCs ==
    {"cleanup", "fetch", "remote", "decide", "dispatch", "open_fetch",
     "open_price", "open_submit", "open_protect", "close_fetch", "close_submit"}

\* The points where a task is suspended in an await and a cancellation lands
AwaitPCs == (LockedPCs \ {"dispatch"}) \cup {"init", "waiting", "sleep"}

\* self.last_account_snapshot = {} and an account not fetched yet
NoAccount ==
    [present |-> FALSE, available_balance |-> 0, total_wallet_balance |-> 0,
     cycle |-> 0, locked |-> FALSE, cleaned |-> FALSE]

NoDecision == Decision(FALSE, "none", {})

NoCur ==
    [decision |-> NoDecision, symbol |-> "", side |-> "", leverage |-> 0,
     account |-> NoAccount, positions |-> <<>>, price |-> 0, quantity |-> 0,
     position_amt |-> 0]

NoRiskCheck ==
    [made |-> FALSE, account |-> NoAccount, stale_by |-> {}, status |-> "none",
     available_now |-> 0]

\* get_positions() of an account that holds nothing
NoPositions == [k \in Keys |-> NoPosition]

\* What is remembered of the cycle an agent is in or has just left; the
\* memory of a cycle is dropped when the agent's sleep after it ends
NoHist ==
    [exit |-> "none",           \* how the cycle ended
     raised_at |-> "none",      \* where the exception that ended it was raised
     skipped |-> 0,             \* decisions of its list that were never run
     intent_result |-> "none",  \* how the last decision run ended
     ledger_before |-> [open_positions |-> <<>>, trade_history |-> <<>>],
     risk_check |-> NoRiskCheck, \* the last risk check of an open
     stale_by |-> {},           \* who got an order accepted since the last fetch
     cleaned |-> FALSE,         \* the stale-order loop of the cycle has finished
     after_failure |-> FALSE,   \* the cycle before this one ended in an exception
     positions |-> NoPositions, \* trading_cycle's local `positions`, by key
     protective |-> "none",     \* how the last _maybe_place_protective_orders went
     answer |-> "none"]         \* the oracle's answer of the cycle: it holds a
                                \* JSON array ("array") or none ("no_array")

\* await self.dex.get_account_balance(), with the moment it was read at
AccountSnapshot(a) ==
    [present |-> TRUE,
     available_balance |-> GetAccountBalance(venue).available_balance,
     total_wallet_balance |-> GetAccountBalance(venue).total_wallet_balance,
     cycle |-> cycle_count[a],
     locked |-> locked[TradingLock(a)],
     cleaned |-> hist[a].cleaned]

LedgerIdle ==
    /\ open_positions = [a \in Agents |-> <<>>]
    /\ trade_history = [a \in Agents |-> <<>>]
    /\ now = 0
    /\ entry_log = [a \in Agents |-> [k \in Keys |-> NoEntryLog]]

CycleIdleOn(account) ==
    /\ locked = [l \in Locks |-> FALSE]
    /\ waiters = [l \in Locks |-> <<>>]
    /\ pc = [a \in Agents |-> "init"]
    /\ is_running = [a \in Agents |-> FALSE]
    /\ stopping = [a \in Agents |-> FALSE]
    /\ cycle_count = [a \in Agents |-> 0]
    /\ n_decisions = [a \in Agents |-> 0]
    /\ next_intent = [a \in Agents |-> 1]
    /\ cur = [a \in Agents |-> NoCur]
    /\ cycle_account = [a \in Agents |-> NoAccount]
    /\ last_account_snapshot = [a \in Agents |-> NoAccount]
    /\ venue = account
    /\ hist = [a \in Agents |-> NoHist]

CycleIdle == CycleIdleOn(VenueInit)

Init ==
    /\ CycleIdle
    /\ StoreIdle
    /\ CloseIdle
    /\ LedgerIdle
    /\ risk_in = [status |-> "unused"]
    /\ risk_out = [status |-> "unused"]

\* The account dict log_decision and log_remote_strategy are given: the
\* cycle's fetch; no price moves, so no position has unrealized profit
LoggedAccount(a) ==
    [total_wallet_balance |-> cycle_account[a].total_wallet_balance,
     total_unrealized_profit |-> 0]

\* Cycles started so far
TotalCycles == cycle_count["a1"] + cycle_count["a2"]

\* AgentManager.start_all creates the task; start() sets is_running
StartTask(a) ==
    /\ pc[a] = "init"
    /\ pc' = [pc EXCEPT ![a] = "loop"]
    /\ is_running' = [is_running EXCEPT ![a] = TRUE]
    /\ UNCHANGED <<riskVars, closeVars, storeVars, ledgerVars, lockVars, stopping, cycle_count, n_decisions,
                   next_intent, cur, cycle_account, last_account_snapshot, hist, venue>>

\* `while self.is_running` is false: start() returns
LoopExit(a) ==
    /\ pc[a] = "loop"
    /\ ~is_running[a]
    /\ pc' = [pc EXCEPT ![a] = "done"]
    /\ UNCHANGED <<riskVars, closeVars, storeVars, ledgerVars, lockVars, is_running, stopping, cycle_count,
                   n_decisions, next_intent, cur, cycle_account, last_account_snapshot,
                   hist, venue>>

\* trading_cycle starts and acquire() finds the lock free and nobody queued
CycleAcquire(a) ==
    LET l == TradingLock(a)
    IN  /\ pc[a] = "loop"
        /\ is_running[a]
        /\ TotalCycles < MaxCycles
        /\ CanTakeAtOnce(locked[l], waiters[l])
        /\ cycle_count' = [cycle_count EXCEPT ![a] = @ + 1]
        /\ locked' = [locked EXCEPT ![l] = TRUE]
        /\ pc' = [pc EXCEPT ![a] = "cleanup"]
        /\ UNCHANGED <<riskVars, closeVars, storeVars, ledgerVars, waiters, is_running, stopping, n_decisions,
                       next_intent, cur, cycle_account, last_account_snapshot,
                       hist, venue>>

\* trading_cycle starts and acquire() queues the task
CycleWait(a) ==
    LET l == TradingLock(a)
    IN  /\ pc[a] = "loop"
        /\ is_running[a]
        /\ TotalCycles < MaxCycles
        /\ ~CanTakeAtOnce(locked[l], waiters[l])
        /\ cycle_count' = [cycle_count EXCEPT ![a] = @ + 1]
        /\ waiters' = [waiters EXCEPT ![l] = Append(@, a)]
        /\ pc' = [pc EXCEPT ![a] = "waiting"]
        /\ UNCHANGED <<riskVars, closeVars, storeVars, ledgerVars, locked, is_running, stopping, n_decisions,
                       next_intent, cur, cycle_account, last_account_snapshot,
                       hist, venue>>

\* The head of the queue is woken by a release and takes the lock
LockWake(a) ==
    LET l == TradingLock(a)
    IN  /\ pc[a] = "waiting"
        /\ ~locked[l]
        /\ waiters[l] # <<>> /\ Head(waiters[l]) = a
        /\ locked' = [locked EXCEPT ![l] = TRUE]
        /\ waiters' = [waiters EXCEPT ![l] = Tail(@)]
        /\ pc' = [pc EXCEPT ![a] = "cleanup"]
        /\ UNCHANGED <<riskVars, closeVars, storeVars, ledgerVars, is_running, stopping, cycle_count, n_decisions,
                       next_intent, cur, cycle_account, last_account_snapshot,
                       hist, venue>>

\* 1. the loop over default_coins calling _cancel_all_orders, whose
\* exceptions are caught one by one
CancelStaleOrders(a) ==
    /\ pc[a] = "cleanup"
    /\ hist' = [hist EXCEPT ![a].cleaned = TRUE]
    /\ pc' = [pc EXCEPT ![a] = "fetch"]
    /\ UNCHANGED <<riskVars, closeVars, storeVars, ledgerVars, lockVars, is_running, stopping, cycle_count,
                   n_decisions, next_intent, cur, cycle_account, last_account_snapshot, venue>>

\* 2. account = get_account_balance(); positions = get_positions()
FetchAccountAndPositions(a) ==
    /\ pc[a] = "fetch"
    /\ cycle_account' = [cycle_account EXCEPT ![a] = AccountSnapshot(a)]
    /\ hist' = [hist EXCEPT ![a].positions = venue.positions]
    /\ pc' = [pc EXCEPT ![a] = "remote"]
    /\ UNCHANGED <<riskVars, closeVars, storeVars, ledgerVars, lockVars, is_running, stopping, cycle_count,
                   n_decisions, next_intent, cur, last_account_snapshot, venue>>

\* The locals of a cycle that has ended
CycleLocalsDropped(a) ==
    /\ n_decisions' = [n_decisions EXCEPT ![a] = 0]
    /\ next_intent' = [next_intent EXCEPT ![a] = 1]
    /\ cur' = [cur EXCEPT ![a] = NoCur]
    /\ cycle_account' = [cycle_account EXCEPT ![a] = NoAccount]

\* How a cycle that ended is remembered
Exited(h, kind, at, left) ==
    [NoHist EXCEPT !.exit = kind, !.raised_at = at, !.skipped = left]

\* Mutant: an exception of trading_cycle ends start()
AfterCycleExceptionEnds(a) == "done"

\* `except Exception` in start(): log, then asyncio.sleep(scan_interval)
AfterCycleException(a) == "sleep"

\* remote_handled: the cycle returns early out of the locked block
RemoteHandled(a) ==
    /\ pc[a] = "remote"
    /\ \E fulfilled \in BOOLEAN :
          store' = [store EXCEPT ![a] =
                      IF fulfilled
                      THEN LogRemoteStrategy(@, cycle_count[a], LoggedAccount(a), "ok")
                      ELSE @]
    /\ locked' = Release(locked, TradingLock(a))
    /\ hist' = [hist EXCEPT ![a] = Exited(@, "remote", "none", 0)]
    /\ pc' = [pc EXCEPT ![a] = "sleep"]
    /\ CycleLocalsDropped(a)
    /\ UNCHANGED <<riskVars, closeVars, store_log, ledgerVars, waiters, is_running, stopping, cycle_count,
                   last_account_snapshot, venue>>

\* Remote strategy is disabled or fell back to the local one;
\* 3. market data is fetched
FetchMarketData(a) ==
    /\ pc[a] = "remote"
    /\ pc' = [pc EXCEPT ![a] = "decide"]
    /\ UNCHANGED <<riskVars, closeVars, storeVars, ledgerVars, lockVars, is_running, stopping, cycle_count,
                   n_decisions, next_intent, cur, cycle_account, last_account_snapshot,
                   hist, venue>>

\* 6.-7. the oracle answers and _parse_decisions returns its list
OracleReturn(a) ==
    \E text \in OracleTexts :
        LET decisions == ParseDecisions(text)
        IN  /\ pc[a] = "decide"
            /\ Len(decisions) \in DecisionListLengths
            /\ n_decisions' = [n_decisions EXCEPT ![a] = Len(decisions)]
            /\ next_intent' = [next_intent EXCEPT ![a] = 1]
            /\ hist' = [hist EXCEPT ![a].answer =
                            IF HoldsArray(text) THEN "array" ELSE "no_array"]
            /\ pc' = [pc EXCEPT ![a] = "dispatch"]
            /\ UNCHANGED <<riskVars, closeVars, storeVars, ledgerVars, lockVars, is_running,
                           stopping, cycle_count, cur, cycle_account,
                           last_account_snapshot, venue>>

\* An exchange, remote-strategy or oracle call of the cycle raises: the
\* exception leaves the locked block and is caught in start()
CycleRaise(a) ==
    /\ pc[a] \in {"fetch", "remote", "decide"}
    /\ locked' = Release(locked, TradingLock(a))
    /\ hist' = [hist EXCEPT ![a] = Exited(@, "exception", pc[a], 0)]
    /\ pc' = [pc EXCEPT ![a] = AfterCycleException(a)]
    /\ CycleLocalsDropped(a)
    /\ UNCHANGED <<riskVars, closeVars, storeVars, ledgerVars, waiters, is_running, stopping, cycle_count,
                   last_account_snapshot, venue>>

---------------------------------------------------------------------------
(* _execute_decisions and the _execute_* calls *)

\* The element the for loop has reached
ThisDecision(a) == cur[a].decision

\* `for decision in decisions` has another element, which is d
LoopReaches(a, d) ==
    /\ pc[a] = "dispatch"
    /\ next_intent[a] <= n_decisions[a]
    /\ d \in Decisions

OpenActions == {"open_long", "open_short"}
CloseActions == {"close_long", "close_short"}
SideOf(action) == IF action \in {"open_long", "close_long"} THEN "long" ELSE "short"

\* A decision starts: what the ledger held is remembered
IntentStarted(h, a) ==
    [h EXCEPT !.intent_result = "running",
              !.ledger_before = [open_positions |-> open_positions[a],
                                 trade_history |-> trade_history[a]]]

\* The for loop moves to the next decision
NextDecision(a) ==
    /\ next_intent' = [next_intent EXCEPT ![a] = @ + 1]
    /\ cur' = [cur EXCEPT ![a] = NoCur]
    /\ pc' = [pc EXCEPT ![a] = "dispatch"]

\* decision.get("action") on an element that is not an object: the
\* AttributeError is raised outside the try block and leaves the cycle
DispatchNotDict(a) ==
    \E d \in Decisions :
        /\ LoopReaches(a, d)
        /\ ~d.is_dict
        /\ locked' = Release(locked, TradingLock(a))
        /\ hist' = [hist EXCEPT ![a] = Exited(@, "exception", "dispatch",
                                              n_decisions[a] - next_intent[a])]
        /\ pc' = [pc EXCEPT ![a] = AfterCycleException(a)]
        /\ CycleLocalsDropped(a)
        /\ UNCHANGED <<riskVars, closeVars, storeVars, ledgerVars, waiters, is_running, stopping,
                       cycle_count, last_account_snapshot, venue>>

\* action in ["hold", "wait"]: logged only
DispatchHold(a) ==
    \E d \in Decisions :
        /\ LoopReaches(a, d)
        /\ d.is_dict
        /\ d.action \in {"hold", "wait"}
        /\ hist' = [hist EXCEPT ![a] =
                      [IntentStarted(@, a) EXCEPT !.intent_result = "done"]]
        /\ NextDecision(a)
        /\ UNCHANGED <<riskVars, closeVars, storeVars, ledgerVars, lockVars, is_running, stopping,
                       cycle_count, n_decisions, cycle_account,
                       last_account_snapshot, venue>>

\* decision["symbol"], decision["leverage"] or decision["position_size_usd"]
\* is missing: the KeyError is caught by the try block of the loop
DispatchMissingKey(a) ==
    \E d \in Decisions :
        /\ LoopReaches(a, d)
        /\ d.is_dict
        /\ \/ d.action \in OpenActions /\ ~(OpenKeys \subseteq d.keys)
           \/ d.action \in CloseActions /\ "symbol" \notin d.keys
        /\ hist' = [hist EXCEPT ![a] =
                      [IntentStarted(@, a) EXCEPT !.intent_result = "failed"]]
        /\ NextDecision(a)
        /\ UNCHANGED <<riskVars, closeVars, storeVars, ledgerVars, lockVars, is_running, stopping,
                       cycle_count, n_decisions, cycle_account,
                       last_account_snapshot, venue>>

\* _execute_open_long / _execute_open_short is entered
DispatchOpen(a) ==
    \E d \in Decisions :
        /\ LoopReaches(a, d)
        /\ d.is_dict
        /\ d.action \in OpenActions
        /\ OpenKeys \subseteq d.keys
        /\ cur' = [cur EXCEPT ![a] = [NoCur EXCEPT !.decision = d,
                                                   !.symbol = d.symbol,
                                                   !.side = SideOf(d.action),
                                                   !.leverage = d.leverage]]
        /\ hist' = [hist EXCEPT ![a] = IntentStarted(@, a)]
        /\ pc' = [pc EXCEPT ![a] = "open_fetch"]
        /\ UNCHANGED <<riskVars, closeVars, storeVars, ledgerVars, lockVars, is_running, stopping,
                       cycle_count, n_decisions, next_intent, cycle_account,
                       last_account_snapshot, venue>>

\* _execute_close is entered
DispatchClose(a) ==
    \E d \in Decisions :
        /\ LoopReaches(a, d)
        /\ d.is_dict
        /\ d.action \in CloseActions
        /\ "symbol" \in d.keys
        /\ cur' = [cur EXCEPT ![a] = [NoCur EXCEPT !.decision = d,
                                                   !.symbol = d.symbol,
                                                   !.side = SideOf(d.action)]]
        /\ hist' = [hist EXCEPT ![a] = IntentStarted(@, a)]
        /\ pc' = [pc EXCEPT ![a] = "close_fetch"]
        /\ UNCHANGED <<riskVars, closeVars, storeVars, ledgerVars, lockVars, is_running, stopping,
                       cycle_count, n_decisions, next_intent, cycle_account,
                       last_account_snapshot, venue>>

\* account = get_account_balance(); positions = get_positions()
OpenFetch(a) ==
    /\ pc[a] = "open_fetch"
    /\ cur' = [cur EXCEPT ![a].account = AccountSnapshot(a),
                          ![a].positions = GetPositions(venue)]
    /\ hist' = [hist EXCEPT ![a].stale_by = {}]
    /\ pc' = [pc EXCEPT ![a] = "open_price"]
    /\ UNCHANGED <<riskVars, closeVars, storeVars, ledgerVars, lockVars, is_running, stopping, cycle_count,
                   n_decisions, next_intent, cycle_account, last_account_snapshot, venue>>

\* Mutant: the risk check reads the snapshot the previous cycle left
RiskCheckAccountOfLastCycle(fetched, last) == last

\* available = account['available_balance'], account being the one just fetched
RiskCheckAccount(fetched, last) == fetched

OpenPlanOf(a, price) ==
    OpenPlan(ThisDecision(a),
             RiskCheckAccount(cur[a].account, last_account_snapshot[a]),
             cur[a].positions, price, DefaultRisk)

RiskChecked(h, a, plan) ==
    [h EXCEPT !.risk_check =
        [made |-> TRUE,
         account |-> RiskCheckAccount(cur[a].account, last_account_snapshot[a]),
         stale_by |-> h.stale_by,
         status |-> plan.status,
         available_now |-> GetAccountBalance(venue).available_balance]]

\* The limits or the minimum-quantity checks turn the open down: return
OpenReject(a) ==
    \E price \in VenuePrices :
        LET plan == OpenPlanOf(a, price)
        IN  /\ pc[a] = "open_price"
            /\ plan.status # "admitted"
            /\ hist' = [hist EXCEPT ![a] =
                          [RiskChecked(@, a, plan) EXCEPT !.intent_result = "rejected"]]
            /\ NextDecision(a)
            /\ UNCHANGED <<riskVars, closeVars, storeVars, ledgerVars, lockVars, is_running, stopping,
                           cycle_count, n_decisions, cycle_account, last_account_snapshot,
                           venue>>

\* The open passes every check: the order is about to be submitted
OpenAdmit(a) ==
    \E price \in VenuePrices :
        LET plan == OpenPlanOf(a, price)
        IN  /\ pc[a] = "open_price"
            /\ plan.status = "admitted"
            /\ cur' = [cur EXCEPT ![a].price = price, ![a].quantity = plan.quantity]
            /\ hist' = [hist EXCEPT ![a] = RiskChecked(@, a, plan)]
            /\ pc' = [pc EXCEPT ![a] = "open_submit"]
            /\ UNCHANGED <<riskVars, closeVars, storeVars, ledgerVars, lockVars, is_running, stopping,
                           cycle_count, n_decisions, next_intent, cycle_account,
                           last_account_snapshot, venue>>

\* Everybody's last fetch is now older than an accepted order of agent a
OrderAccepted(h, a) == [b \in Agents |-> [h[b] EXCEPT !.stale_by = @ \cup {a}]]

\* Mutant: the ledger is written although the submission raised
AfterSubmitAlways(raised, before, written) == written

\* The ledger write follows the awaited submission: a raise skips it
AfterSubmit(raised, before, written) == IF raised THEN before ELSE written

OpenRecorded(a) ==
    RecordOpenPosition(open_positions[a], cur[a].symbol, cur[a].side, cur[a].price,
                       Ticks(cur[a].quantity), cur[a].leverage, now)

\* result = await self.dex.open_long/open_short(...) returns;
\* record_open_position follows
OpenSubmit(a) ==
    /\ pc[a] = "open_submit"
    /\ VenueAccepts(venue, cur[a].quantity, cur[a].price, cur[a].leverage)
    /\ venue' = VenueOpen(venue, cur[a].symbol, cur[a].side, cur[a].quantity,
                          cur[a].price, cur[a].leverage)
    /\ open_positions' = [open_positions EXCEPT ![a] =
                             AfterSubmit(FALSE, @, OpenRecorded(a))]
    /\ entry_log' = [entry_log EXCEPT ![a][Key(cur[a].symbol, cur[a].side)] =
                        LogOpenOn(@, Ticks(cur[a].quantity))]
    /\ now' = now + 1
    /\ hist' = OrderAccepted(hist, a)
    /\ pc' = [pc EXCEPT ![a] = "open_protect"]
    /\ UNCHANGED <<riskVars, closeVars, storeVars, trade_history, lockVars, is_running, stopping,
                   cycle_count, n_decisions, next_intent, cur, cycle_account,
                   last_account_snapshot>>

\* The submission raises (the venue turns the order down, or the request
\* fails): the exception is caught by the try block of the loop
OpenSubmitRaise(a) ==
    /\ pc[a] = "open_submit"
    /\ open_positions' = [open_positions EXCEPT ![a] =
                             AfterSubmit(TRUE, @, OpenRecorded(a))]
    /\ hist' = [hist EXCEPT ![a].intent_result = "submit_raised"]
    /\ NextDecision(a)
    /\ UNCHANGED <<riskVars, closeVars, storeVars, trade_history, now, entry_log, lockVars, is_running,
                   stopping, cycle_count, n_decisions, cycle_account,
                   last_account_snapshot, venue>>

\* The venue accepts the order but the request fails on the way back
OpenSubmitLost(a) ==
    /\ pc[a] = "open_submit"
    /\ VenueAccepts(venue, cur[a].quantity, cur[a].price, cur[a].leverage)
    /\ venue' = VenueOpen(venue, cur[a].symbol, cur[a].side, cur[a].quantity,
                          cur[a].price, cur[a].leverage)
    /\ open_positions' = [open_positions EXCEPT ![a] =
                             AfterSubmit(TRUE, @, OpenRecorded(a))]
    /\ hist' = [OrderAccepted(hist, a) EXCEPT ![a].intent_result = "submit_raised"]
    /\ NextDecision(a)
    /\ UNCHANGED <<riskVars, closeVars, storeVars, trade_history, now, entry_log, lockVars, is_running,
                   stopping, cycle_count, n_decisions, cycle_account,
                   last_account_snapshot>>

ProtectiveOutcomes == {"disabled", "placed", "failed"}

\* Mutant: a failure of the protective orders takes the recorded entry back
AfterProtectiveRollsBack(outcome, positions, key) ==
    IF outcome = "failed"
    THEN [k \in DOMAIN positions \ {key} |-> positions[k]]
    ELSE positions

\* except Exception around place_take_profit_stop_loss: logger.error only
AfterProtective(outcome, positions, key) == positions

\* _maybe_place_protective_orders returns: advanced orders are disabled, the
\* protective orders were placed, or place_take_profit_stop_loss raised and
\* the exception was caught
ProtectiveOrders(a) ==
    \E outcome \in ProtectiveOutcomes :
        /\ pc[a] = "open_protect"
        /\ open_positions' =
             [open_positions EXCEPT ![a] =
                 AfterProtective(outcome, @, Key(cur[a].symbol, cur[a].side))]
        /\ hist' = [hist EXCEPT ![a].intent_result = "done",
                                ![a].protective = outcome]
        /\ NextDecision(a)
        /\ UNCHANGED <<riskVars, closeVars, storeVars, trade_history, now, entry_log,
                       lockVars, is_running, stopping, cycle_count, n_decisions,
                       cycle_account, last_account_snapshot, venue>>

\* An exchange read inside an _execute_* call raises: caught by the loop
IntentRaise(a) ==
    /\ pc[a] \in {"open_fetch", "open_price", "close_fetch"}
    /\ hist' = [hist EXCEPT ![a].intent_result = "failed"]
    /\ NextDecision(a)
    /\ UNCHANGED <<riskVars, closeVars, storeVars, ledgerVars, lockVars, is_running, stopping, cycle_count,
                   n_decisions, cycle_account, last_account_snapshot, venue>>

\* price = get_market_price(); positions = get_positions(); no position of
\* that side: return
\* Mutant: the position is looked up in the positions the cycle fetched
ClosePositionsOfCycle(fetched, of_cycle) == of_cycle

\* positions = await self.dex.get_positions() inside _execute_close
ClosePositions(fetched, of_cycle) == fetched

\* position = next((p for p in positions if p["symbol"] == symbol and
\* p["side"] == side), None); a position of amount 0 is not listed
ClosePosition(a) ==
    ClosePositions(venue.positions, hist[a].positions)[Key(cur[a].symbol, cur[a].side)]

CloseNoPosition(a) ==
    /\ pc[a] = "close_fetch"
    /\ ClosePosition(a).position_amt = 0
    /\ hist' = [hist EXCEPT ![a].intent_result = "rejected"]
    /\ NextDecision(a)
    /\ UNCHANGED <<riskVars, closeVars, storeVars, ledgerVars, lockVars, is_running, stopping, cycle_count,
                   n_decisions, cycle_account, last_account_snapshot, venue>>

\* The position is found; the decision names no quantity: close_quantity = None
CloseResolve(a) ==
    \E price \in VenuePrices :
        /\ pc[a] = "close_fetch"
        /\ ClosePosition(a).position_amt # 0
        /\ cur' = [cur EXCEPT ![a].price = price,
                              ![a].position_amt = Abs(ClosePosition(a).position_amt)]
        /\ pc' = [pc EXCEPT ![a] = "close_submit"]
        /\ UNCHANGED <<riskVars, closeVars, storeVars, ledgerVars, lockVars, is_running, stopping,
                       cycle_count, n_decisions, next_intent, cycle_account,
                       last_account_snapshot, hist, venue>>

CloseRecorded(a, closed_quantity) ==
    RecordClosePosition(open_positions[a], trade_history[a], cur[a].symbol,
                        cur[a].side, cur[a].price, Some(Ticks(closed_quantity)), now)

\* result = await self.dex.close_position(...) returns; record_close_position
\* follows with result["closed_quantity"]
CloseSubmit(a) ==
    LET key == Key(cur[a].symbol, cur[a].side)
        target_qty == TargetQty(venue.positions[key].position_amt, None)
        r == CloseRecorded(a, target_qty)
        open_quantity == IF key \in DOMAIN open_positions[a]
                         THEN open_positions[a][key].quantity ELSE 0
    IN  /\ pc[a] = "close_submit"
        /\ venue.positions[key].position_amt > 0
        /\ venue' = VenueClose(venue, cur[a].symbol, cur[a].side, target_qty)
        /\ open_positions' = [open_positions EXCEPT ![a] =
                                 AfterSubmit(FALSE, @, r.open_positions)]
        /\ trade_history' = [trade_history EXCEPT ![a] =
                                AfterSubmit(FALSE, @, r.trade_history)]
        /\ entry_log' = [entry_log EXCEPT ![a][key] =
                            LogClose(@, open_quantity, Some(Ticks(target_qty)), r)]
        /\ now' = now + 1
        /\ store' = [store EXCEPT ![a] =
                        SaveAfterClose(@, r, "ok")]
        /\ hist' = [OrderAccepted(hist, a) EXCEPT ![a].intent_result = "done"]
        /\ NextDecision(a)
        /\ UNCHANGED <<riskVars, closeVars, store_log, lockVars, is_running, stopping, cycle_count, n_decisions,
                       cycle_account, last_account_snapshot>>

\* close_position raises: caught by the try block of the loop
CloseSubmitRaise(a) ==
    LET r == CloseRecorded(a, cur[a].position_amt)
    IN  /\ pc[a] = "close_submit"
        /\ open_positions' = [open_positions EXCEPT ![a] =
                                 AfterSubmit(TRUE, @, r.open_positions)]
        /\ trade_history' = [trade_history EXCEPT ![a] =
                                AfterSubmit(TRUE, @, r.trade_history)]
        /\ hist' = [hist EXCEPT ![a].intent_result = "submit_raised"]
        /\ NextDecision(a)
        /\ UNCHANGED <<riskVars, closeVars, storeVars, now, entry_log, lockVars, is_running, stopping,
                       cycle_count, n_decisions, cycle_account, last_account_snapshot,
                       venue>>

\* 8. every decision was run: log_decision, last_account_snapshot, and the
\* locked block is left
FinishCycle(a) ==
    /\ pc[a] = "dispatch"
    /\ next_intent[a] > n_decisions[a]
    /\ store' = [store EXCEPT ![a] =
                    LogDecision(@, trade_history[a], cycle_count[a], LoggedAccount(a),
                                "ok", "ok")]
    /\ last_account_snapshot' = [last_account_snapshot EXCEPT ![a] = cycle_account[a]]
    /\ locked' = Release(locked, TradingLock(a))
    /\ hist' = [hist EXCEPT ![a] = Exited(@, "normal", "none", 0)]
    /\ pc' = [pc EXCEPT ![a] = "sleep"]
    /\ CycleLocalsDropped(a)
    /\ UNCHANGED <<riskVars, closeVars, store_log, ledgerVars, waiters, is_running, stopping, cycle_count,
                   venue>>

\* log_decision raises while writing its file
LogDecisionRaise(a) ==
    /\ pc[a] = "dispatch"
    /\ next_intent[a] > n_decisions[a]
    /\ store' = [store EXCEPT ![a] =
                    LogDecisionRaised(@, trade_history[a], LoggedAccount(a))]
    /\ locked' = Release(locked, TradingLock(a))
    /\ hist' = [hist EXCEPT ![a] = Exited(@, "exception", "log", 0)]
    /\ pc' = [pc EXCEPT ![a] = AfterCycleException(a)]
    /\ CycleLocalsDropped(a)
    /\ UNCHANGED <<riskVars, closeVars, store_log, ledgerVars, waiters, is_running, stopping, cycle_count,
                   last_account_snapshot, venue>>

\* asyncio.sleep(scan_interval) returns
SleepWake(a) ==
    /\ pc[a] = "sleep"
    /\ pc' = [pc EXCEPT ![a] = "loop"]
    /\ hist' = [hist EXCEPT ![a] =
                  [NoHist EXCEPT !.after_failure = (hist[a].exit = "exception")]]
    /\ UNCHANGED <<riskVars, closeVars, storeVars, ledgerVars, lockVars, is_running, stopping, cycle_count,
                   n_decisions, next_intent, cur, cycle_account, last_account_snapshot,
                   venue>>

\* AgentManager.stop_all reaches the agent: await agent.stop()
Stop(a) ==
    /\ ~stopping[a]
    /\ pc[a] \notin {"done", "cancelled"}
    /\ is_running' = [is_running EXCEPT ![a] = FALSE]
    /\ stopping' = [stopping EXCEPT ![a] = TRUE]
    /\ UNCHANGED <<riskVars, closeVars, storeVars, ledgerVars, lockVars, pc, cycle_count, n_decisions,
                   next_intent, cur, cycle_account, last_account_snapshot, hist, venue>>

\* self.tasks[agent_id].cancel(): CancelledError is raised at the await the
\* task is suspended in; no `except Exception` catches it, `async with`
\* releases the lock if the task holds it
Cancel(a) ==
    LET l == TradingLock(a)
    IN  /\ stopping[a]
        /\ pc[a] \in AwaitPCs
        /\ locked' = IF pc[a] \in LockedPCs THEN Release(locked, l) ELSE locked
        /\ waiters' = [waiters EXCEPT ![l] = Without(@, a)]
        /\ hist' = IF pc[a] \in LockedPCs
                   THEN [hist EXCEPT ![a] = Exited(@, "cancelled", pc[a], 0)]
                   ELSE hist
        /\ pc' = [pc EXCEPT ![a] = "cancelled"]
        /\ CycleLocalsDropped(a)
        /\ UNCHANGED <<riskVars, closeVars, storeVars, ledgerVars, is_running, stopping, cycle_count,
                       last_account_snapshot, venue>>

\* Mutant: the metrics computation trims the list it was handed to the
\* trades it looks at, in place
TradeHistoryAfterReadTrimmed(history) ==
    IF history = <<>> THEN history ELSE Tail(history)

\* get_trade_history() hands out self.trade_history itself; calculate_metrics
\* slices it and reads pnl_usdt and symbol of its trades, and writes nothing
TradeHistoryAfterRead(history) == history

\* GET /api/agents/{agent_id}/performance, /analytics, /trades and the
\* websocket loop: the handlers take no lock and run whenever the agents'
\* tasks are suspended
ApiRead(a) ==
    /\ trade_history' = [trade_history EXCEPT ![a] = TradeHistoryAfterRead(@)]
    /\ UNCHANGED <<riskVars, closeVars, storeVars, open_positions, now, entry_log,
                   cycleVars>>

\* self.tasks[agent_id].cancel() while the task is suspended in
\* dex.open_long/open_short and the venue has taken the order: CancelledError
\* is raised at `result = await self.dex.open_long(...)`, the statements
\* after it are not run, `async with` releases the lock
CancelInFlight(a) ==
    LET l == TradingLock(a)
    IN  /\ stopping[a]
        /\ pc[a] = "open_submit"
        /\ VenueAccepts(venue, cur[a].quantity, cur[a].price, cur[a].leverage)
        /\ venue' = VenueOpen(venue, cur[a].symbol, cur[a].side, cur[a].quantity,
                              cur[a].price, cur[a].leverage)
        /\ locked' = Release(locked, l)
        /\ hist' = [OrderAccepted(hist, a) EXCEPT
                       ![a] = Exited(@, "cancelled", pc[a], 0)]
        /\ pc' = [pc EXCEPT ![a] = "cancelled"]
        /\ CycleLocalsDropped(a)
        /\ UNCHANGED <<riskVars, closeVars, storeVars, ledgerVars, waiters, is_running,
                       stopping, cycle_count, last_account_snapshot>>

Next ==
    \E a \in Agents :
        \/ StartTask(a)
        \/ LoopExit(a)
        \/ CycleAcquire(a)
        \/ CycleWait(a)
        \/ LockWake(a)
        \/ CancelStaleOrders(a)
        \/ FetchAccountAndPositions(a)
        \/ RemoteHandled(a)
        \/ FetchMarketData(a)
        \/ OracleReturn(a)
        \/ CycleRaise(a)
        \/ DispatchNotDict(a)
        \/ DispatchHold(a)
        \/ DispatchMissingKey(a)
        \/ DispatchOpen(a)
        \/ DispatchClose(a)
        \/ OpenFetch(a)
        \/ OpenReject(a)
        \/ OpenAdmit(a)
        \/ OpenSubmit(a)
        \/ OpenSubmitRaise(a)
        \/ OpenSubmitLost(a)
        \/ CancelInFlight(a)
        \/ ApiRead(a)
        \/ ProtectiveOrders(a)
        \/ IntentRaise(a)
        \/ CloseNoPosition(a)
        \/ CloseResolve(a)
        \/ CloseSubmit(a)
        \/ CloseSubmitRaise(a)
        \/ FinishCycle(a)
        \/ LogDecisionRaise(a)
        \/ SleepWake(a)
        \/ Stop(a)
        \/ Cancel(a)

Spec == Init /\ [][Next]_vars

---------------------------------------------------------------------------
(* SpecStep: the same agents on an account whose balance makes the         *)
(* quantities _execute_open_* computes fall between two steps of the       *)
(* venue: 50% of 88 USD at 5x and 50000 is 0.0044, which the venue         *)
(* formats to 0.004.                                                        *)

VenueInitOffStep ==
    [VenueInit EXCEPT !.available_balance = 88 * USD,
                      !.total_wallet_balance = 88 * USD]

InitOffStep ==
    /\ CycleIdleOn(VenueInitOffStep)
    /\ StoreIdle
    /\ CloseIdle
    /\ LedgerIdle
    /\ risk_in = [status |-> "unused"]
    /\ risk_out = [status |-> "unused"]

SpecStep == InitOffStep /\ [][Next]_vars

---------------------------------------------------------------------------
(* SpecEquity: the cycles of one agent on an account whose equity moves    *)
(* only with the agent's own position: the mark price changes, a close     *)
(* realizes the profit of the position, nothing is deposited, withdrawn    *)
(* or charged. Each cycle fetches the account, trades, and hands the       *)
(* account it fetched to log_decision.                                     *)

MaxEquityCycles == 3
MaxEquityTrades == 4

EquityAgent == "a1"
EquityKey == Key("BTCUSDT", "long")
EquityPrices == {100, 101}
EquityLeverages == {1, 5}
EquityQuantity == 10 * MIN_QUANTITY

EquityVenueInit ==
    [available_balance |-> 100 * USD,
     total_wallet_balance |-> 100 * USD,
     positions |-> [k \in Keys |-> NoPosition],
     mark_price |-> 100]

\* The profit of `quantity` bought at entry_price and valued at price,
\* in money units
LongProfit(quantity, entry_price, price) ==
    ((price - entry_price) * quantity) \div (QTY \div USD)

\* crossUnPnl of the balance endpoint: the open position at the mark price
CrossUnPnl(v) ==
    LongProfit(v.positions[EquityKey].position_amt,
               v.positions[EquityKey].entry_price, v.mark_price)

\* get_account_balance: total_balance = wallet_balance + unrealized_profit
AccountWithUnrealized(v) ==
    [present |-> TRUE,
     available_balance |-> v.available_balance,
     total_wallet_balance |-> v.total_wallet_balance + CrossUnPnl(v),
     total_unrealized_profit |-> CrossUnPnl(v)]

\* close_position filled at the mark price: the margin comes back and the
\* profit of the closed quantity is added to the wallet
VenueCloseAtMark(v, symbol, side, target_qty) ==
    LET p == v.positions[Key(symbol, side)]
        profit == LongProfit(target_qty, p.entry_price, v.mark_price)
    IN  [VenueClose(v, symbol, side, target_qty) EXCEPT
            !.total_wallet_balance = @ + profit,
            !.available_balance = @ + profit]

EquityInit ==
    /\ CycleIdleOn(EquityVenueInit)
    /\ StoreIdle
    /\ CloseIdle
    /\ LedgerIdle
    /\ risk_in = [status |-> "unused"]
    /\ risk_out = [status |-> "unused"]

EquityUnused ==
    UNCHANGED <<riskVars, closeVars, lockVars, store_log, entry_log, is_running,
                stopping, n_decisions, next_intent, cur, hist>>

\* The market moves
EquityPriceMove ==
    \E price \in EquityPrices \ {venue.mark_price} :
        /\ venue' = [venue EXCEPT !.mark_price = price]
        /\ EquityUnused
        /\ UNCHANGED <<open_positions, trade_history, now, store, pc, cycle_count,
                       cycle_account, last_account_snapshot>>

\* trading_cycle up to the fetch: account = await get_account_balance()
EquityFetch ==
    /\ pc[EquityAgent] \in {"init", "sleep"}
    /\ cycle_count[EquityAgent] < MaxEquityCycles
    /\ cycle_count' = [cycle_count EXCEPT ![EquityAgent] = @ + 1]
    /\ cycle_account' = [cycle_account EXCEPT ![EquityAgent] =
                            AccountWithUnrealized(venue)]
    /\ pc' = [pc EXCEPT ![EquityAgent] = "dispatch"]
    /\ EquityUnused
    /\ UNCHANGED <<open_positions, trade_history, now, store, venue,
                   last_account_snapshot>>

\* An open_long decision of the cycle is admitted, filled at the mark price
\* and recorded
EquityOpen ==
    \E leverage \in EquityLeverages :
        /\ pc[EquityAgent] = "dispatch"
        /\ now < MaxEquityTrades
        /\ venue.positions[EquityKey].position_amt = 0
        /\ VenueAccepts(venue, EquityQuantity, venue.mark_price, leverage)
        /\ venue' = VenueOpen(venue, EquityKey[1], EquityKey[2], EquityQuantity,
                              venue.mark_price, leverage)
        /\ open_positions' =
             [open_positions EXCEPT ![EquityAgent] =
                 RecordOpenPosition(@, EquityKey[1], EquityKey[2], venue.mark_price,
                                    Ticks(EquityQuantity), leverage, now)]
        /\ now' = now + 1
        /\ EquityUnused
        /\ UNCHANGED <<trade_history, store, pc, cycle_count, cycle_account,
                       last_account_snapshot>>

\* A close_long decision of the cycle: the whole position is closed at the
\* mark price and record_close_position gets the closed quantity
EquityClose ==
    LET target_qty == TargetQty(venue.positions[EquityKey].position_amt, None)
        r == RecordClosePosition(open_positions[EquityAgent],
                                 trade_history[EquityAgent],
                                 EquityKey[1], EquityKey[2], venue.mark_price,
                                 Some(Ticks(target_qty)), now)
    IN  /\ pc[EquityAgent] = "dispatch"
        /\ now < MaxEquityTrades
        /\ venue.positions[EquityKey].position_amt > 0
        /\ venue' = VenueCloseAtMark(venue, EquityKey[1], EquityKey[2], target_qty)
        /\ open_positions' = [open_positions EXCEPT ![EquityAgent] = r.open_positions]
        /\ trade_history' = [trade_history EXCEPT ![EquityAgent] = r.trade_history]
        /\ store' = [store EXCEPT ![EquityAgent] = SaveAfterClose(@, r, "ok")]
        /\ now' = now + 1
        /\ EquityUnused
        /\ UNCHANGED <<pc, cycle_count, cycle_account, last_account_snapshot>>

\* The cycle ends: log_decision(..., account=account, ...) with the account
\* the cycle fetched; last_account_snapshot = dict(account)
EquityLog ==
    /\ pc[EquityAgent] = "dispatch"
    /\ store' = [store EXCEPT ![EquityAgent] =
                    LogDecision(@, trade_history[EquityAgent],
                                cycle_count[EquityAgent],
                                cycle_account[EquityAgent], "ok", "ok")]
    /\ last_account_snapshot' = [last_account_snapshot EXCEPT ![EquityAgent] =
                                    cycle_account[EquityAgent]]
    /\ cycle_account' = [cycle_account EXCEPT ![EquityAgent] = NoAccount]
    /\ pc' = [pc EXCEPT ![EquityAgent] = "sleep"]
    /\ EquityUnused
    /\ UNCHANGED <<open_positions, trade_history, now, venue, cycle_count>>

EquityNext ==
    \/ EquityPriceMove
    \/ EquityFetch
    \/ EquityOpen
    \/ EquityClose
    \/ EquityLog

SpecEquity == EquityInit /\ [][EquityNext]_vars

---------------------------------------------------------------------------
(* SpecLive: the agents' loops with no bound on the number of cycles. Only *)
(* what the lock depends on is kept: a cycle takes the lock, runs its      *)
(* first awaits, and the rest of it (oracle, decisions, log) is one step   *)
(* that ends the `async with` block. The event loop runs every task that   *)
(* is ready, so a woken waiter and a task inside the block keep moving:    *)
(* weak fairness of their steps.                                           *)

\* trading_cycle starts and acquire() takes the free lock at once
LiveAcquire(a) ==
    LET l == TradingLock(a)
    IN  /\ pc[a] = "loop"
        /\ is_running[a]
        /\ CanTakeAtOnce(locked[l], waiters[l])
        /\ locked' = [locked EXCEPT ![l] = TRUE]
        /\ pc' = [pc EXCEPT ![a] = "cleanup"]
        /\ UNCHANGED <<riskVars, closeVars, storeVars, ledgerVars, waiters, is_running,
                       stopping, cycle_count, n_decisions, next_intent, cur,
                       cycle_account, last_account_snapshot, hist, venue>>

\* trading_cycle starts and acquire() queues the task
LiveWait(a) ==
    LET l == TradingLock(a)
    IN  /\ pc[a] = "loop"
        /\ is_running[a]
        /\ ~CanTakeAtOnce(locked[l], waiters[l])
        /\ waiters' = [waiters EXCEPT ![l] = Append(@, a)]
        /\ pc' = [pc EXCEPT ![a] = "waiting"]
        /\ UNCHANGED <<riskVars, closeVars, storeVars, ledgerVars, locked, is_running,
                       stopping, cycle_count, n_decisions, next_intent, cur,
                       cycle_account, last_account_snapshot, hist, venue>>

\* The cycle runs from the fetch to the end of the `async with` block
LiveFinish(a) ==
    /\ pc[a] = "remote"
    /\ last_account_snapshot' = [last_account_snapshot EXCEPT ![a] = cycle_account[a]]
    /\ locked' = Release(locked, TradingLock(a))
    /\ hist' = [hist EXCEPT ![a] = Exited(@, "normal", "none", 0)]
    /\ pc' = [pc EXCEPT ![a] = "sleep"]
    /\ CycleLocalsDropped(a)
    /\ UNCHANGED <<riskVars, closeVars, storeVars, ledgerVars, waiters, is_running,
                   stopping, cycle_count, venue>>

LiveNext ==
    \E a \in Agents :
        \/ StartTask(a)
        \/ LoopExit(a)
        \/ LiveAcquire(a)
        \/ LiveWait(a)
        \/ LockWake(a)
        \/ CancelStaleOrders(a)
        \/ FetchAccountAndPositions(a)
        \/ LiveFinish(a)
        \/ SleepWake(a)
        \/ Stop(a)
        \/ Cancel(a)

\* The tasks the event loop has ready are run
LiveFairness ==
    \A a \in Agents :
        /\ WF_vars(LockWake(a))
        /\ WF_vars(CancelStaleOrders(a))
        /\ WF_vars(FetchAccountAndPositions(a))
        /\ WF_vars(LiveFinish(a))

SpecLive == Init /\ [][LiveNext]_vars /\ LiveFairness

---------------------------------------------------------------------------
(* SpecLedger: record_open_position and record_close_position called in    *)
(* any order on the logger of one agent                                    *)

MaxLedgerCalls == 4

LedgerAgent == "a1"
LedgerOpenQuantities == {Ticks(MIN_QUANTITY)}
LedgerCloseQuantities ==
    {None, Some(-1), Some(0), Some(Ticks(MIN_QUANTITY) \div 2),
     Some(Ticks(MIN_QUANTITY) - 5), Some(Ticks(MIN_QUANTITY)),
     Some(3 * Ticks(MIN_QUANTITY))}
LedgerEntryPrices == {100}
LedgerClosePrices == {99, 101}
LedgerLeverages == {1, 10}

LedgerInit ==
    /\ LedgerIdle
    /\ StoreIdle
    /\ CloseIdle
    /\ CycleIdle
    /\ risk_in = [status |-> "unused"]
    /\ risk_out = [status |-> "unused"]

LedgerOpen ==
    \E sy \in Symbols, sd \in Sides, p \in LedgerEntryPrices,
       q \in LedgerOpenQuantities, lev \in LedgerLeverages :
        /\ now < MaxLedgerCalls
        /\ open_positions' =
             [open_positions EXCEPT ![LedgerAgent] =
                 RecordOpenPosition(@, sy, sd, p, q, lev, now)]
        /\ entry_log' = [entry_log EXCEPT ![LedgerAgent][Key(sy, sd)] = LogOpenOn(@, q)]
        /\ now' = now + 1
        /\ UNCHANGED <<trade_history, riskVars, closeVars, cycleVars, storeVars>>

LedgerClose ==
    \E sy \in Symbols, sd \in Sides, p \in LedgerClosePrices,
       q \in LedgerCloseQuantities :
        LET key == Key(sy, sd)
            r == RecordClosePosition(open_positions[LedgerAgent],
                                     trade_history[LedgerAgent], sy, sd, p, q, now)
            open_quantity == IF key \in DOMAIN open_positions[LedgerAgent]
                             THEN open_positions[LedgerAgent][key].quantity ELSE 0
        IN  /\ now < MaxLedgerCalls
            /\ open_positions' = [open_positions EXCEPT ![LedgerAgent] = r.open_positions]
            /\ trade_history' = [trade_history EXCEPT ![LedgerAgent] = r.trade_history]
            /\ entry_log' = [entry_log EXCEPT ![LedgerAgent][key] =
                                LogClose(@, open_quantity, q, r)]
            /\ store' = [store EXCEPT ![LedgerAgent] =
                            SaveAfterClose(@, r, "ok")]
            /\ now' = now + 1
            /\ UNCHANGED <<riskVars, closeVars, store_log, cycleVars>>

LedgerNext == LedgerOpen \/ LedgerClose

SpecLedger == LedgerInit /\ [][LedgerNext]_vars

---------------------------------------------------------------------------
(* SpecStore: one DecisionLogger, its files and the process around it. The *)
(* logger's methods are called in any order; a save may fail or the        *)
(* process may die in it, and a new process constructs the logger again    *)
(* from the files.                                                         *)

MaxStoreCalls == 5
MaxFaults == 1

StoreAgent == "a1"
StoreKey == Key("BTCUSDT", "long")
StoreEntryPrices == {100}
StoreClosePrices == {101}
StoreLeverages == {10}
StoreQuantities == {Ticks(MIN_QUANTITY)}

\* What get_account_balance returned to the cycle that logs
StoreAccounts ==
    {[total_wallet_balance |-> 100 * USD, total_unrealized_profit |-> 0],
     [total_wallet_balance |-> 150 * USD, total_unrealized_profit |-> 1 * USD]}

StoreInit ==
    /\ StoreIdle
    /\ CloseIdle
    /\ LedgerIdle
    /\ CycleIdle
    /\ risk_in = [status |-> "unused"]
    /\ risk_out = [status |-> "unused"]

StoreCanCall == now < MaxStoreCalls /\ ~store_log.down

\* The content a file is known to hold
Durable(file) == IF Parses(file) THEN file.content ELSE <<>>

\* The trades a log_decision sums have been in one more realized_change
Counted(appended, history, from) ==
    [i \in DOMAIN appended |->
        IF \E j \in DOMAIN history :
              j > from /\ history[j].close_time = appended[i].close_time
        THEN [appended[i] EXCEPT !.count = @ + 1]
        ELSE appended[i]]

Called(op, returned) ==
    [store_log EXCEPT !.last_op = op, !.returned = returned, !.recovered = FALSE]

\* record_open_position after an open order was accepted
StoreOpen ==
    \E p \in StoreEntryPrices, q \in StoreQuantities, lev \in StoreLeverages :
        /\ StoreCanCall
        /\ ~store_log.venue_open
        /\ open_positions' =
             [open_positions EXCEPT ![StoreAgent] =
                 RecordOpenPosition(@, StoreKey[1], StoreKey[2], p, q, lev, now)]
        /\ store_log' = [Called("record_open", "ok") EXCEPT !.venue_open = TRUE]
        /\ now' = now + 1
        /\ UNCHANGED <<riskVars, closeVars, cycleVars, trade_history, entry_log, store>>

\* record_close_position after a close order for the whole position was
\* accepted; its save completes, fails or is cut short
StoreClose ==
    \E p \in StoreClosePrices, outcome \in WriteOutcomes :
        LET r == RecordClosePosition(open_positions[StoreAgent],
                                     trade_history[StoreAgent],
                                     StoreKey[1], StoreKey[2], p, None, now)
        IN  /\ StoreCanCall
            /\ store_log.venue_open
            /\ outcome # "ok" => store_log.faults < MaxFaults
            /\ open_positions' = [open_positions EXCEPT ![StoreAgent] = r.open_positions]
            /\ trade_history' = [trade_history EXCEPT ![StoreAgent] = r.trade_history]
            /\ store' = [store EXCEPT ![StoreAgent] =
                            SaveAfterClose(@, r, outcome)]
            /\ store_log' =
                 [Called("record_close", "ok") EXCEPT
                    !.venue_open = FALSE,
                    !.faults = IF outcome # "ok" /\ r.trade # None THEN @ + 1 ELSE @,
                    !.durable_trades = Durable(store[StoreAgent].trades_file),
                    !.appended = IF r.trade = None THEN @
                                 ELSE Append(@, [close_time |-> now, count |-> 0])]
            /\ now' = now + 1
            /\ UNCHANGED <<riskVars, closeVars, cycleVars, entry_log>>

\* The process dies inside the save of record_close_position, after
\* open(..., "w") truncated the file
StoreCloseCrash ==
    \E p \in StoreClosePrices :
        LET r == RecordClosePosition(open_positions[StoreAgent],
                                     trade_history[StoreAgent],
                                     StoreKey[1], StoreKey[2], p, None, now)
        IN  /\ StoreCanCall
            /\ store_log.venue_open
            /\ store_log.faults < MaxFaults
            /\ r.trade # None
            /\ trade_history' = [trade_history EXCEPT ![StoreAgent] = r.trade_history]
            /\ store' = [store EXCEPT ![StoreAgent] =
                            SaveTradeHistory(@, r.trade_history, "torn")]
            /\ store_log' =
                 [Called("record_close", "crashed") EXCEPT
                    !.venue_open = FALSE,
                    !.down = TRUE,
                    !.faults = @ + 1,
                    !.durable_trades = Durable(store[StoreAgent].trades_file),
                    !.appended = Append(@, [close_time |-> now, count |-> 0])]
            /\ now' = now + 1
            /\ UNCHANGED <<riskVars, closeVars, cycleVars, open_positions, entry_log>>

\* log_decision at the end of a cycle; its saves complete or fail
StoreLogDecision ==
    \E account \in StoreAccounts, equity_outcome \in WriteOutcomes,
       cash_outcome \in {"ok", "unopened"} :
        /\ StoreCanCall
        /\ (equity_outcome # "ok" \/ cash_outcome # "ok") =>
               /\ store_log.faults < MaxFaults
               /\ equity_outcome = "ok" \/ cash_outcome = "ok"
        /\ store' = [store EXCEPT ![StoreAgent] =
                        LogDecision(@, trade_history[StoreAgent], now, account,
                                    equity_outcome, cash_outcome)]
        /\ store_log' =
             [Called("log_decision", "ok") EXCEPT
                !.faults = IF equity_outcome # "ok" \/ cash_outcome # "ok"
                           THEN @ + 1 ELSE @,
                !.durable_equity = Durable(store[StoreAgent].equity_file),
                !.appended = Counted(@, trade_history[StoreAgent],
                                     store[StoreAgent].last_logged_trade_index)]
        /\ now' = now + 1
        /\ UNCHANGED <<riskVars, closeVars, cycleVars, open_positions, trade_history, entry_log>>

\* The process dies inside _save_equity_history of log_decision, after
\* open(..., "w") truncated the file
StoreLogDecisionCrash ==
    \E account \in StoreAccounts :
        /\ StoreCanCall
        /\ store_log.faults < MaxFaults
        /\ store' = [store EXCEPT ![StoreAgent] =
                        LogDecision(@, trade_history[StoreAgent], now, account,
                                    "torn", "unopened")]
        /\ store_log' =
             [Called("log_decision", "crashed") EXCEPT
                !.down = TRUE,
                !.faults = @ + 1,
                !.durable_equity = Durable(store[StoreAgent].equity_file),
                !.appended = Counted(@, trade_history[StoreAgent],
                                     store[StoreAgent].last_logged_trade_index)]
        /\ now' = now + 1
        /\ UNCHANGED <<riskVars, closeVars, cycleVars, open_positions, trade_history, entry_log>>

\* log_decision raises while it writes the decision file
StoreLogDecisionRaise ==
    \E account \in StoreAccounts :
        /\ StoreCanCall
        /\ store_log.faults < MaxFaults
        /\ store' = [store EXCEPT ![StoreAgent] =
                        LogDecisionRaised(@, trade_history[StoreAgent], account)]
        /\ store_log' =
             [Called("log_decision", "raised") EXCEPT
                !.faults = @ + 1,
                !.appended = Counted(@, trade_history[StoreAgent],
                                     store[StoreAgent].last_logged_trade_index)]
        /\ now' = now + 1
        /\ UNCHANGED <<riskVars, closeVars, cycleVars, open_positions, trade_history, entry_log>>

\* log_remote_strategy of a cycle the remote strategy handled
StoreLogRemoteStrategy ==
    \E account \in StoreAccounts :
        /\ StoreCanCall
        /\ store' = [store EXCEPT ![StoreAgent] =
                        LogRemoteStrategy(@, now, account, "ok")]
        /\ store_log' =
             [Called("log_remote_strategy", "ok") EXCEPT
                !.durable_equity = Durable(store[StoreAgent].equity_file)]
        /\ now' = now + 1
        /\ UNCHANGED <<riskVars, closeVars, cycleVars, open_positions, trade_history, entry_log>>

\* The process ends (or has died) and a new one constructs the logger:
\* open_positions = {}, the histories and the cash-flow state are loaded
StoreRestart ==
    /\ now < MaxStoreCalls
    /\ open_positions' = [open_positions EXCEPT ![StoreAgent] = <<>>]
    /\ trade_history' = [trade_history EXCEPT ![StoreAgent] =
                            LoadTradeHistory(store[StoreAgent])]
    /\ store' = [store EXCEPT ![StoreAgent] = Constructed(@)]
    /\ store_log' =
         [Called("restart", "ok") EXCEPT
            !.down = FALSE,
            !.recovered = store_log.down,
            !.prev = [net_deposits |-> store[StoreAgent].net_deposits,
                      last_equity |-> store[StoreAgent].last_equity,
                      last_unrealized |-> store[StoreAgent].last_unrealized,
                      last_external_cash_flow |->
                          store[StoreAgent].last_external_cash_flow]]
    /\ now' = now + 1
    /\ UNCHANGED <<riskVars, closeVars, cycleVars, entry_log>>

StoreNext ==
    \/ StoreOpen
    \/ StoreClose
    \/ StoreCloseCrash
    \/ StoreLogDecision
    \/ StoreLogDecisionCrash
    \/ StoreLogDecisionRaise
    \/ StoreLogRemoteStrategy
    \/ StoreRestart

SpecStore == StoreInit /\ [][StoreNext]_vars

---------------------------------------------------------------------------
(* SpecClose: one _execute_close call on a position the venue holds, with    *)
(* the close_quantity and close_quantity_pct fields of the decision drawn    *)
(* from bounded sets. Quantities in pipeline units; a percentage field in    *)
(* units of 1/PCT.                                                           *)

PCT == 100 * 100

\* A field of the decision dict: absent, or present with a value float() takes
\* or with one it raises on
Absent == [present |-> FALSE, valid |-> FALSE, value |-> 0]
Invalid == [present |-> TRUE, valid |-> FALSE, value |-> 0]
Number(x) == [present |-> TRUE, valid |-> TRUE, value |-> x]

ClosePositionAmts == {MIN_QUANTITY, 10 * MIN_QUANTITY, 25 * MIN_QUANTITY}
CloseQuantityFields ==
    {Absent, Invalid}
      \cup {Number(x) : x \in {0 - MIN_QUANTITY, 0, MIN_QUANTITY \div 2, MIN_QUANTITY,
                              30 * MIN_QUANTITY}}
ClosePctFields ==
    {Absent, Invalid}
      \cup {Number(x) : x \in {0 - (PCT \div 2), 0, PCT \div 4, PCT \div 2, PCT,
                              (3 * PCT) \div 2, 50 * PCT, 100 * PCT, 150 * PCT}}

\* close_quantity as _execute_close has it before the clamp: None stands for
\* a close of the whole position
RequestedCloseQuantity(decision, position_amt) ==
    IF decision.close_quantity.present
    THEN IF decision.close_quantity.valid
         THEN Some(decision.close_quantity.value) ELSE None
    ELSE IF decision.close_quantity_pct.present
    THEN IF ~decision.close_quantity_pct.valid THEN None
         ELSE IF decision.close_quantity_pct.value <= 0 THEN None
         ELSE LET pct == IF decision.close_quantity_pct.value > PCT
                         THEN decision.close_quantity_pct.value \div 100
                         ELSE decision.close_quantity_pct.value
              IN  Some((position_amt * Min(pct, PCT)) \div PCT)
    ELSE None

\* close_quantity = min(position_amt, max(0.0, close_quantity))
ClampCloseQuantity(close_quantity, position_amt) ==
    IF close_quantity = None THEN None
    ELSE Some(Min(position_amt, Max(0, close_quantity[1])))

\* The quantity _execute_close passes on, and whether it returns before the
\* submission: a quantity at or below 1e-12 is below one pipeline unit
ClosePlan(decision, position_amt) ==
    LET close_quantity ==
            ClampCloseQuantity(RequestedCloseQuantity(decision, position_amt),
                               position_amt)
    IN  IF close_quantity # None /\ close_quantity[1] <= 0
        THEN [status |-> "skipped", quantity |-> close_quantity, closed |-> 0]
        ELSE [status |-> "submitted", quantity |-> close_quantity,
              closed |-> TargetQty(position_amt, close_quantity)]

CloseInit ==
    /\ close_in \in [decision : [close_quantity : CloseQuantityFields,
                                 close_quantity_pct : ClosePctFields],
                     position_amt : ClosePositionAmts]
    /\ close_out = [status |-> "none"]
    /\ LedgerIdle
    /\ CycleIdle
    /\ StoreIdle
    /\ risk_in = [status |-> "unused"]
    /\ risk_out = [status |-> "unused"]

\* The computed quantity is too small: the call returns without an order
CloseSkip ==
    /\ close_out.status = "none"
    /\ ClosePlan(close_in.decision, close_in.position_amt).status = "skipped"
    /\ close_out' = ClosePlan(close_in.decision, close_in.position_amt)
    /\ UNCHANGED <<close_in, riskVars, ledgerVars, cycleVars, storeVars>>

\* dex.close_position(symbol, side, quantity=close_quantity) is called
CloseOrder ==
    /\ close_out.status = "none"
    /\ ClosePlan(close_in.decision, close_in.position_amt).status = "submitted"
    /\ close_out' = ClosePlan(close_in.decision, close_in.position_amt)
    /\ UNCHANGED <<close_in, riskVars, ledgerVars, cycleVars, storeVars>>

CloseNext == CloseSkip \/ CloseOrder

SpecClose == CloseInit /\ [][CloseNext]_vars

---------------------------------------------------------------------------
(* SpecRisk: one _execute_open_* call on inputs drawn from bounded sets *)

RiskRequests == {1 * USD, 5 * USD, 20 * USD, 40 * USD, 80 * USD, 700 * USD}
RiskLeverages == {1, 5, 10}
RiskPrices == {100, 50000}
RiskAvailable == {499 * CENT, 5 * USD, 10 * USD, 100 * USD, 1000 * USD}
RiskTotals == {100 * USD, 1000 * USD}
RiskSingleTradePcts == {DEFAULT_MAX_SINGLE_TRADE_PCT, 100}
\* risk_management.max_positions and max_leverage of the agent's configuration
RiskMaxPositions == {1, DEFAULT_MAX_POSITIONS}
RiskMaxLeverages == {5, DEFAULT_MAX_LEVERAGE}

\* Lists get_positions() can return: nothing, or one position of some margin
RiskPositionLists ==
    {<<>>}
      \cup {<<[symbol |-> "ETHUSDT", side |-> "long", position_amt |-> amt,
               entry_price |-> 100, leverage |-> 1]>> :
              amt \in {QTY \div 2, (79 * QTY) \div 100, 799 * (QTY \div 1000),
                       7995 * (QTY \div 10000), (796 * QTY) \div 100}}

RiskInit ==
    /\ risk_in \in
         [decision : [position_size_usd : RiskRequests, leverage : RiskLeverages],
          side : {"long", "short"},
          account : [available_balance : RiskAvailable,
                     total_wallet_balance : RiskTotals],
          positions : RiskPositionLists,
          price : RiskPrices,
          risk : [max_single_trade_pct : RiskSingleTradePcts,
                  max_single_trade_with_positions_pct :
                      {DEFAULT_MAX_SINGLE_TRADE_WITH_POSITIONS_PCT},
                  max_total_position_pct : {DEFAULT_MAX_TOTAL_POSITION_PCT},
                  max_positions : RiskMaxPositions,
                  max_leverage : RiskMaxLeverages]]
    \* free margin is what the positions' margin leaves of the equity
    /\ risk_in.account.available_balance + TotalMarginUsed(risk_in.positions)
         <= risk_in.account.total_wallet_balance
    /\ risk_out = [status |-> "none"]
    /\ LedgerIdle
    /\ CycleIdle
    /\ StoreIdle
    /\ CloseIdle

RiskPlan == OpenPlan(risk_in.decision, risk_in.account, risk_in.positions,
                     risk_in.price, risk_in.risk)

RiskSymbol == "BTCUSDT"

\* What the call leaves behind when it returns before the submission
Rejected(plan) ==
    [orders |-> <<>>, raised |-> FALSE, recorded |-> <<>>] @@ plan

\* result = await self.dex.open_long/open_short(symbol, quantity, leverage),
\* then record_open_position on a logger that holds no entry; quantities in
\* pipeline units
Submitted(plan, side, raised) ==
    [orders |-> <<[symbol |-> RiskSymbol, side |-> side,
                   quantity |-> plan.quantity, leverage |-> plan.leverage]>>,
     raised |-> raised,
     recorded |-> IF raised THEN <<>>
                  ELSE RecordOpenPosition(<<>>, RiskSymbol, side, plan.price,
                                          plan.quantity, plan.leverage, now)]
      @@ plan

\* The call rejects the intent: it returns before the order submission
RiskReject ==
    /\ risk_out.status = "none"
    /\ RiskPlan.status # "admitted"
    /\ risk_out' = Rejected(RiskPlan)
    /\ UNCHANGED <<risk_in, closeVars, ledgerVars, cycleVars, storeVars>>

\* The call admits the intent and submits the order; when the venue raises,
\* record_open_position is not reached
RiskAdmit ==
    /\ risk_out.status = "none"
    /\ RiskPlan.status = "admitted"
    /\ \E raised \in BOOLEAN :
          risk_out' = Submitted(RiskPlan, risk_in.side, raised)
    /\ UNCHANGED <<risk_in, closeVars, ledgerVars, cycleVars, storeVars>>

RiskNext == RiskReject \/ RiskAdmit

SpecRisk == RiskInit /\ [][RiskNext]_vars

---------------------------------------------------------------------------
(* Properties of the agents' cycles (Spec) *)

InLockedBlock == {a \in Agents : pc[a] \in LockedPCs}

\* C1: of the agents the manager built, at most one is inside the locked
\* block of trading_cycle at any time, and an agent anywhere between the
\* stale-order cleanup and the log_decision write holds the manager's lock.
C1_MutualExclusion ==
    /\ Cardinality(InLockedBlock) <= 1
    /\ InLockedBlock # {} => locked[ManagerLock]

\* One agent is inside the block with decisions to run while the other is
\* queued for the lock
C1_Witness ==
    \E a, b \in Agents :
        /\ pc[a] = "open_submit"
        /\ pc[b] = "waiting"
        /\ waiters[ManagerLock] = <<b>>

\* C2: no risk check of an agent reads an account fetched before an order
\* of another agent was accepted: the balance it reads is the balance the
\* venue holds at the check, so two agents never admit an open each on the
\* same available_balance.
C2_RiskCheckSeesOthersOrders ==
    \A a \in Agents :
        hist[a].risk_check.made =>
            /\ hist[a].risk_check.stale_by \ {a} = {}
            /\ hist[a].risk_check.account.available_balance
                 = hist[a].risk_check.available_now

\* Agent a had an open accepted and recorded; agent b, in the first decision
\* of its first cycle, admits an open on the balance a's order left
C2_Witness ==
    \E a, b \in Agents :
        /\ a # b
        /\ Key("BTCUSDT", "long") \in DOMAIN open_positions[a]
        /\ cycle_count[b] = 1 /\ next_intent[b] = 1
        /\ pc[b] = "open_submit"
        /\ hist[b].risk_check.made
        /\ hist[b].risk_check.status = "admitted"
        /\ hist[b].risk_check.account.available_balance
             < VenueInit.available_balance

\* C3: when no agent is inside the locked block the lock is free: every
\* way out of the block (completion, the early return of a handled remote
\* strategy, an exception, a cancellation) has released it.
C3_LockReleasedOnExit ==
    /\ InLockedBlock = {} => ~locked[ManagerLock]
    /\ \A a \in Agents :
         hist[a].exit \in {"normal", "remote", "exception", "cancelled"}
            => pc[a] \notin LockedPCs

\* An agent was cancelled while it held the lock and the other agent has
\* taken the lock since
C3_Witness ==
    \E a, b \in Agents :
        /\ a # b
        /\ pc[a] = "cancelled"
        /\ hist[a].exit = "cancelled"
        /\ hist[a].raised_at = "open_submit"
        /\ pc[b] \in LockedPCs

\* C4: the account a risk check of an open reads was fetched in the same
\* cycle, with the lock held and after the stale-order loop of that cycle.
C4_RiskCheckUsesCycleFetch ==
    \A a \in Agents :
        hist[a].risk_check.made =>
            /\ hist[a].risk_check.account.present
            /\ hist[a].risk_check.account.cycle = cycle_count[a]
            /\ hist[a].risk_check.account.locked
            /\ hist[a].risk_check.account.cleaned

\* A risk check in a cycle whose agent still keeps the snapshot of its
\* previous cycle, which shows another balance
C4_Witness ==
    \E a \in Agents :
        /\ hist[a].risk_check.made
        /\ last_account_snapshot[a].present
        /\ last_account_snapshot[a].cycle < cycle_count[a]
        /\ last_account_snapshot[a].available_balance
             # hist[a].risk_check.account.available_balance

\* C7 as stated: no failure of a decision leaves _execute_decisions, so no
\* cycle ends with an exception raised in its loop and none of the
\* decisions of a list is left unrun.
C7_NoIntentFailureLeavesTheLoop ==
    \A a \in Agents :
        ~(hist[a].exit = "exception" /\ hist[a].raised_at = "dispatch")

StartLoopStep(a) ==
    \* start() returns only when is_running is false
    /\ pc'[a] = "done" => ~is_running'[a]
    \* a cycle that ends in an exception leaves the agent in the sleep of
    \* the loop and outside the locked block
    /\ (hist'[a].exit = "exception" /\ hist[a].exit # "exception")
          => /\ pc'[a] = "sleep"
             /\ locked'[ManagerLock] => \E b \in Agents \ {a} : pc'[b] \in LockedPCs
    \* the sleep ends in the loop test, or in the task's cancellation
    /\ (pc[a] = "sleep" /\ pc'[a] # "sleep")
          => \/ pc'[a] = "loop"
             \/ pc'[a] = "cancelled" /\ stopping[a]
    \* the loop test of a running agent starts the next cycle
    /\ (pc[a] = "loop" /\ pc'[a] # "loop" /\ is_running[a])
          => /\ pc'[a] \in {"cleanup", "waiting"}
             /\ cycle_count'[a] = cycle_count[a] + 1

\* C8: an exception of trading_cycle never ends the loop of start(): the
\* agent goes to sleep with the lock released, the sleep leads back to the
\* loop test, a running agent starts its next cycle from there, and
\* start() returns only when is_running is false.
C8_LoopSurvivesCycleFailure == [][\A a \in Agents : StartLoopStep(a)]_vars

\* An agent is fetching its account in the cycle that follows a failed one
C8_Witness ==
    \E a \in Agents :
        /\ hist[a].after_failure
        /\ is_running[a]
        /\ pc[a] = "fetch"

\* C9: when the submission of an order raised, the agent's open_positions
\* and trade_history are what they were before the decision.
C9_NoLedgerWriteOnSubmitFailure ==
    \A a \in Agents :
        hist[a].intent_result = "submit_raised" =>
            /\ open_positions[a] = hist[a].ledger_before.open_positions
            /\ trade_history[a] = hist[a].ledger_before.trade_history

\* A submission raised for an agent whose ledger holds an open entry
C9_Witness ==
    \E a \in Agents :
        /\ hist[a].intent_result = "submit_raised"
        /\ DOMAIN open_positions[a] # {}

\* C24: after an accepted open the ledger entry is written from the price
\* and the quantity the agent computed, before the protective orders are
\* tried; a failure of place_take_profit_stop_loss leaves that entry as it
\* is, ends the intent normally and lets the loop go on to the next decision.
C24_ProtectiveFailureKeepsEntry ==
    [][\A a \in Agents :
          LET key == Key(cur[a].symbol, cur[a].side)
          IN  /\ (pc[a] = "open_submit" /\ pc'[a] = "open_protect") =>
                    /\ key \in DOMAIN open_positions'[a]
                    /\ open_positions'[a][key].quantity = Ticks(cur[a].quantity)
                    /\ open_positions'[a][key].entry_price = cur[a].price
                    /\ open_positions'[a][key].leverage = cur[a].leverage
              /\ (pc[a] = "open_protect" /\ pc'[a] = "dispatch"
                    /\ hist'[a].protective = "failed") =>
                    /\ open_positions' = open_positions
                    /\ trade_history' = trade_history
                    /\ key \in DOMAIN open_positions'[a]
                    /\ hist'[a].intent_result = "done"
                    /\ hist'[a].exit = "none"
                    /\ next_intent'[a] = next_intent[a] + 1]_vars

\* The protective orders of an open failed, its entry is in the ledger, and
\* the loop has another decision to run
C24_Witness ==
    \E a \in Agents :
        /\ pc[a] = "dispatch"
        /\ hist[a].protective = "failed"
        /\ hist[a].intent_result = "done"
        /\ open_positions[a] # <<>>
        /\ next_intent[a] <= n_decisions[a]

\* C26: an answer that holds no JSON array is parsed to the empty list, and
\* the cycle then goes straight to log_decision: no order is submitted, the
\* ledger and the trade history stay as they are, and the cycle ends
\* normally unless log_decision itself raises.
C26_UnparsableAnswerIsNoOp ==
    [][\A a \in Agents :
          /\ (pc[a] = "decide" /\ pc'[a] = "dispatch"
                /\ hist'[a].answer = "no_array") =>
                 n_decisions'[a] = 0
          /\ (hist[a].answer = "no_array" /\ pc'[a] # pc[a]) =>
                 /\ pc[a] = "dispatch"
                 /\ n_decisions[a] = 0
                 /\ venue' = venue
                 /\ open_positions' = open_positions
                 /\ trade_history' = trade_history
                 /\ \/ hist'[a].exit = "normal" /\ pc'[a] = "sleep"
                    \/ hist'[a].exit = "exception" /\ hist'[a].raised_at = "log"]_vars

\* The answer of a cycle held no JSON array and was parsed to the empty
\* list, while the agent's ledger holds an open position
C26_Witness ==
    \E a \in Agents :
        /\ pc[a] = "dispatch"
        /\ hist[a].answer = "no_array"
        /\ n_decisions[a] = 0
        /\ open_positions[a] # <<>>

\* C27: stopping an agent only clears its running flag: a cycle that is
\* under way when the stop is issued is not interrupted, and the agent
\* starts no cycle afterwards.
C27_StopLetsCycleFinish ==
    [][\A a \in Agents :
          /\ (stopping[a] /\ pc[a] \in LockedPCs) => pc'[a] # "cancelled"
          /\ (stopping[a] /\ pc[a] = "loop") => pc'[a] \in {"loop", "done"}]_vars

\* C28: when a task is cancelled while its open order is in flight, the lock
\* is released and the order's outcome is reconciled with the ledger: if the
\* venue took the order, the agent's ledger holds an open entry for it.
C28_CancelledOpenIsReconciled ==
    [][\A a \in Agents :
          (pc[a] = "open_submit" /\ pc'[a] = "cancelled") =>
              /\ ~locked'[TradingLock(a)]
              /\ venue' # venue =>
                    Key(cur[a].symbol, cur[a].side) \in DOMAIN open_positions'[a]]_vars

\* The in-memory state of agent a's DecisionLogger
LoggerState(a) ==
    <<open_positions[a], trade_history[a], store[a].equity_history,
      store[a].net_deposits, store[a].last_logged_trade_index,
      store[a].last_equity, store[a].last_unrealized>>

\* C29: every change of a DecisionLogger's in-memory state (the open
\* positions, the trade history, the equity history, the trade index and
\* net_deposits) is made by its agent while the agent holds the trading
\* lock; the API readers change none of it.
C29_LedgerMutatedUnderLock ==
    [][\A a \in Agents :
          LoggerState(a)' # LoggerState(a) =>
              /\ locked[TradingLock(a)]
              /\ pc[a] \in LockedPCs
              /\ pc'[a] # pc[a]
              /\ \A b \in Agents \ {a} :
                    TradingLock(b) = TradingLock(a) => pc[b] \notin LockedPCs]_vars

\* An agent has just recorded an open position inside the locked block
\* while the other agent is queued for the same lock
C29_Witness ==
    \E a \in Agents : \E b \in Agents \ {a} :
        /\ pc[a] = "open_protect"
        /\ open_positions[a] # <<>>
        /\ locked[TradingLock(a)]
        /\ TradingLock(b) = TradingLock(a)
        /\ pc[b] = "waiting"

\* C30: trade_history is append-only: a step leaves an agent's list as it is
\* or appends one ClosedTrade at its end; the trades already in it are not
\* modified, removed or reordered.
C30_TradeHistoryAppendOnly ==
    [][\A a \in Agents :
          \/ trade_history'[a] = trade_history[a]
          \/ /\ Len(trade_history'[a]) = Len(trade_history[a]) + 1
             /\ SubSeq(trade_history'[a], 1, Len(trade_history[a])) = trade_history[a]]_vars

\* An agent's history holds two trades, the first of them already counted by
\* a log_decision
C30_Witness ==
    \E a \in Agents :
        /\ Len(trade_history[a]) = 2
        /\ store[a].last_logged_trade_index >= 1

\* C31 as stated: while the oracle call of one agent is pending, another
\* agent is not kept from the exchange I/O of its own cycle, that is, it is
\* not queued for the lock the first one holds.
C31_OracleDoesNotStallOthers ==
    \A a \in Agents : \A b \in Agents \ {a} :
        pc[a] = "decide" => pc[b] # "waiting"

\* C31 amended: the oracle call is awaited inside the locked block, so while
\* it is pending its agent holds the trading lock and no other agent is
\* anywhere in the exchange I/O of a cycle; the others' tasks still run
\* (they start, test the loop, queue for the lock, sleep and wake), and one
\* of them enters the block only in a step in which the lock is free.
C31_OracleHoldsLockOthersQueue ==
    [][\A a \in Agents : \A b \in Agents \ {a} :
          /\ pc[a] = "decide" =>
                /\ locked[TradingLock(a)]
                /\ pc[b] \notin LockedPCs
                /\ pc'[b] \notin LockedPCs
          /\ (pc[a] = "decide" /\ pc'[a] = "decide" /\ pc'[b] # pc[b]) =>
                pc'[b] \in {"loop", "waiting", "done", "cancelled"}]_vars

\* While the oracle call of one agent is pending, the other agent has run
\* up to the lock and is queued for it
C31_Witness ==
    \E a \in Agents : \E b \in Agents \ {a} :
        /\ pc[a] = "decide"
        /\ pc[b] = "waiting"
        /\ b \in {waiters[TradingLock(b)][i] : i \in DOMAIN waiters[TradingLock(b)]}

\* C38: whenever the venue reports a close of (symbol, side) as fully closed,
\* the closing agent's ledger holds no open entry for that key afterwards,
\* whatever amount the venue held.
C38_FullCloseClearsEntry ==
    [][\A a \in Agents :
          LET key == Key(cur[a].symbol, cur[a].side)
          IN  (pc[a] = "close_submit" /\ pc'[a] = "dispatch"
                 /\ hist'[a].intent_result = "done"
                 /\ venue.positions[key].position_amt > 0
                 /\ venue'.positions[key].position_amt = 0) =>
                  key \notin DOMAIN open_positions'[a]]_vars

\* C40: lock liveness. A running agent that waits for the shared trading
\* lock gets it and starts its cycle, however often the other agents run
\* their cycles, provided every cycle ends.
C40_WaiterAcquires ==
    \A a \in Agents :
        (pc[a] = "waiting") ~> (pc[a] = "cleanup" \/ stopping[a])

\* An agent that has finished a cycle is back in the queue behind one that
\* is still waiting, and the lock is free
C40_Witness ==
    \E a \in Agents : \E b \in Agents \ {a} :
        /\ ~locked[TradingLock(a)]
        /\ waiters[TradingLock(a)] = <<a, b>>
        /\ pc[a] = "waiting" /\ pc[b] = "waiting"
        /\ ~stopping[a] /\ ~stopping[b]
        /\ ~last_account_snapshot[a].present
        /\ last_account_snapshot[b].present

\* Agent a leaves the lookup of _execute_close in this step, the venue's
\* answers having arrived
CloseLookupStep(a) ==
    /\ pc[a] = "close_fetch"
    /\ pc'[a] \in {"dispatch", "close_submit"}
    /\ hist'[a].intent_result # "failed"

\* C22: _execute_close looks its target up by (symbol, side) in the positions
\* the venue holds while the intent runs, not in the positions the cycle
\* fetched for the decision; with no such position no close order is
\* submitted and neither open_positions nor trade_history changes.
C22_CloseLooksUpLivePosition ==
    [][\A a \in Agents :
          CloseLookupStep(a) =>
              LET live == venue.positions[Key(cur[a].symbol, cur[a].side)]
              IN  IF live.position_amt = 0
                  THEN /\ pc'[a] = "dispatch"
                       /\ hist'[a].intent_result = "rejected"
                       /\ venue' = venue
                       /\ open_positions' = open_positions
                       /\ trade_history' = trade_history
                  ELSE /\ pc'[a] = "close_submit"
                       /\ cur'[a].position_amt = Abs(live.position_amt)]_vars

\* A close rejected for a position the cycle's fetch had listed and the venue
\* no longer holds
C22_Witness ==
    \E a \in Agents, k \in Keys :
        /\ pc[a] = "dispatch"
        /\ hist[a].intent_result = "rejected"
        /\ hist[a].positions[k].position_amt > 0
        /\ venue.positions[k].position_amt = 0
        /\ venue.positions = [j \in Keys |-> NoPosition]

---------------------------------------------------------------------------
(* Properties of the sizing pipeline (SpecRisk) *)

\* Every quotient the pipeline took on these inputs was exact
ExactInputs ==
    /\ (risk_in.account.available_balance * MaxTradePct(risk_in.positions, risk_in.risk)) % 100 = 0
    /\ (risk_in.account.total_wallet_balance * risk_in.risk.max_total_position_pct) % 100 = 0
    /\ \A i \in 1..Len(risk_in.positions) :
         Divides(risk_in.positions[i].position_amt, risk_in.positions[i].entry_price,
                 risk_in.positions[i].leverage * (QTY \div USD))
    /\ Divides(MIN_QUANTITY, risk_in.price, risk_in.decision.leverage * (QTY \div USD))
    /\ (risk_out.status = "admitted" /\ ~risk_out.min_adjusted) =>
         Divides(risk_out.position_size_usd * risk_out.leverage, QTY \div USD, risk_out.price)

\* C5 as stated: the final margin of an admitted open never exceeds the
\* margin the intent requested.
C5_FinalMarginAtMostRequested ==
    risk_out.status = "admitted" => risk_out.position_size_usd <= risk_out.requested

\* C5 amended: the final margin of an admitted open is at most the requested
\* margin unless the quantity was raised to the 0.001 minimum; in that case
\* it is 0.001 * price / leverage, which is at most the available balance
\* and at most the single-trade ceiling max_trade_amount.
C5_MarginMonotoneUnlessMinimum ==
    risk_out.status = "admitted" =>
        IF risk_out.min_adjusted
        THEN /\ risk_out.position_size_usd =
                    MarginOf(MIN_QUANTITY, risk_out.price, risk_out.leverage)
             /\ risk_out.position_size_usd <= risk_in.account.available_balance
             /\ risk_out.position_size_usd <= risk_out.max_trade_amount
        ELSE risk_out.position_size_usd <= risk_out.requested

\* An admitted open whose margin was cut by the total-position clamp, and one
\* whose quantity was raised to the minimum above the requested margin
C5_Witness ==
    /\ risk_out.status = "admitted"
    /\ risk_out.min_adjusted
    /\ risk_out.position_size_usd > risk_out.requested

\* C6 as stated: after an admitted open the margin in use plus the margin of
\* the submitted order stays within max_total_margin plus the 0.1 USD
\* tolerance, on every path of the pipeline.
C6_TotalMarginWithinLimit ==
    risk_out.status = "admitted" =>
        risk_out.total_margin_used + risk_out.position_size_usd
            <= risk_out.max_total_margin + MIN_REMAINING

\* The call computed a quantity below the 0.001 floor at price 50000 and 10x
C18_Scenario ==
    /\ risk_out.status # "none"
    /\ risk_out.min_adjusted
    /\ risk_in.price = 50000
    /\ risk_in.decision.leverage = 10

\* C18 as stated: in that case the minimum order needs 5.00 USD of margin; the
\* open is admitted when available_balance is exactly 5.00 USD and rejected
\* when it is 4.99 USD.
C18_AdmittedAtExactlyFive ==
    C18_Scenario =>
        /\ MarginOf(MIN_QUANTITY, risk_in.price, risk_in.decision.leverage) = 5 * USD
        /\ risk_in.account.available_balance = 5 * USD =>
              risk_out.status = "admitted" /\ Len(risk_out.orders) = 1
        /\ risk_in.account.available_balance = 499 * CENT =>
              risk_out.status # "admitted" /\ risk_out.orders = <<>>

\* C18 amended: the minimum order needs 5.00 USD of margin; with 4.99 USD
\* available the open is rejected; with exactly 5.00 USD available it is not
\* refused as unaffordable, and it is admitted exactly when the single-trade
\* ceiling max_trade_amount is at least 5.00 USD.
C18_AdmittedAtFiveWithinCeiling ==
    C18_Scenario =>
        /\ MarginOf(MIN_QUANTITY, risk_in.price, risk_in.decision.leverage) = 5 * USD
        /\ risk_in.account.available_balance = 5 * USD =>
              /\ risk_out.status # "min_unaffordable"
              /\ risk_out.status = "admitted" <=> risk_out.max_trade_amount >= 5 * USD
              /\ risk_out.status = "admitted" =>
                    /\ Len(risk_out.orders) = 1
                    /\ risk_out.orders[1].quantity = MIN_QUANTITY
              /\ risk_out.status # "admitted" =>
                    risk_out.status = "min_exceeds_limit" /\ risk_out.orders = <<>>
        /\ risk_in.account.available_balance = 499 * CENT =>
              risk_out.status = "min_unaffordable" /\ risk_out.orders = <<>>

\* The minimum order admitted with exactly the 5.00 USD it needs available
C18_Witness ==
    /\ C18_Scenario
    /\ risk_in.account.available_balance = 5 * USD
    /\ risk_out.status = "admitted"
    /\ risk_out.required_margin = 5 * USD

\* No positions, 1000 USD available, max_single_trade_pct 50, and an intent
\* of 700 USD margin at 5x on price 100
C19_Scenario ==
    /\ risk_out.status # "none"
    /\ risk_in.positions = <<>>
    /\ risk_in.account.available_balance = 1000 * USD
    /\ risk_in.risk.max_single_trade_pct = 50
    /\ risk_in.decision.position_size_usd = 700 * USD
    /\ risk_in.decision.leverage = 5
    /\ risk_in.price = 100

\* C19: in that scenario the margin is clamped to 500 USD, the quantity is
\* 25.0, the estimate after the 5% haircut is 23.75 with a required margin
\* within the available balance, and the open is admitted: one order of
\* quantity 25.0 at leverage 5 is submitted and, the venue accepting it, an
\* open ledger entry is recorded.
C19_ClampedOpenAdmitted ==
    C19_Scenario =>
        /\ risk_out.max_trade_amount = 500 * USD
        /\ risk_out.position_size_usd = 500 * USD
        /\ risk_out.quantity = 25 * QTY
        /\ risk_out.estimated_formatted_qty = 2375 * (QTY \div 100)
        /\ risk_out.required_margin = 475 * USD
        /\ risk_out.required_margin <= risk_in.account.available_balance
        /\ risk_out.status = "admitted"
        /\ Len(risk_out.orders) = 1
        /\ risk_out.orders[1].quantity = 25 * QTY
        /\ risk_out.orders[1].leverage = 5
        /\ ~risk_out.raised =>
              /\ DOMAIN risk_out.recorded = {Key(RiskSymbol, risk_in.side)}
              /\ risk_out.recorded[Key(RiskSymbol, risk_in.side)].quantity = 25 * QTY
              /\ risk_out.recorded[Key(RiskSymbol, risk_in.side)].leverage = 5
              /\ risk_out.recorded[Key(RiskSymbol, risk_in.side)].entry_price = 100

\* The scenario's order accepted by the venue and recorded
C19_Witness ==
    /\ C19_Scenario
    /\ risk_out.status = "admitted"
    /\ ~risk_out.raised
    /\ risk_out.recorded # <<>>

\* C32: no open order is submitted with a leverage above max_leverage of the
\* agent's risk configuration, and none while the live positions already
\* number max_positions.
C32_OpenRespectsCeilings ==
    (risk_out.status = "admitted" /\ risk_out.orders # <<>>) =>
        /\ risk_out.orders[1].leverage <= risk_in.risk.max_leverage
        /\ Len(risk_in.positions) < risk_in.risk.max_positions

\* C33: max_trade_amount is available_balance x pct / 100, pct being
\* max_single_trade_with_positions_pct when the fresh positions list is not
\* empty and max_single_trade_pct otherwise; a requested margin above it is
\* set to exactly max_trade_amount, without a rejection at this step, and a
\* request at or below it goes on unchanged.
C33_SingleTradeCeiling ==
    risk_out.status # "none" =>
        LET pct == IF risk_in.positions # <<>>
                   THEN risk_in.risk.max_single_trade_with_positions_pct
                   ELSE risk_in.risk.max_single_trade_pct
            requested == risk_in.decision.position_size_usd
        IN  /\ 100 * risk_out.max_trade_amount = risk_in.account.available_balance * pct
            /\ requested > risk_out.max_trade_amount =>
                  risk_out.after_single_trade = risk_out.max_trade_amount
            /\ requested <= risk_out.max_trade_amount =>
                  risk_out.after_single_trade = requested
            /\ risk_out.status \in {"admitted", "total_limit", "min_unaffordable",
                                    "min_exceeds_limit", "final_check"}

\* A request above the ceiling of an account with positions was cut to the
\* ceiling and its order submitted
C33_Witness ==
    /\ risk_out.status = "admitted"
    /\ risk_in.positions # <<>>
    /\ risk_in.decision.position_size_usd > risk_out.max_trade_amount
    /\ risk_out.position_size_usd = risk_out.max_trade_amount
    /\ Len(risk_out.orders) = 1

\* C34: when total_margin_used + margin exceeds max_total_margin, the open is
\* rejected, with no order and no ledger write, if remaining =
\* max_total_margin - total_margin_used is below 0.1, and otherwise the
\* margin is set to exactly remaining; within the limit the margin goes on
\* unchanged.
C34_TotalPositionLimit ==
    risk_out.status # "none" =>
        LET margin == risk_out.after_single_trade
            used == TotalMarginUsed(risk_in.positions)
            remaining == risk_out.max_total_margin - used
        IN  /\ 100 * risk_out.max_total_margin =
                  risk_in.account.total_wallet_balance * risk_in.risk.max_total_position_pct
            /\ (used + margin > risk_out.max_total_margin /\ remaining < MIN_REMAINING) =>
                  /\ risk_out.status = "total_limit"
                  /\ risk_out.orders = <<>>
                  /\ risk_out.recorded = <<>>
            /\ (used + margin > risk_out.max_total_margin /\ remaining >= MIN_REMAINING) =>
                  /\ risk_out.status # "total_limit"
                  /\ risk_out.after_total_limit = remaining
            /\ used + margin <= risk_out.max_total_margin =>
                  /\ risk_out.status # "total_limit"
                  /\ risk_out.after_total_limit = margin

\* An open rejected with less than 0.1 USD remaining under the limit
C34_Witness ==
    /\ risk_out.status = "total_limit"
    /\ risk_out.max_total_margin - TotalMarginUsed(risk_in.positions) < MIN_REMAINING
    /\ risk_out.max_total_margin - TotalMarginUsed(risk_in.positions) > 0
    /\ risk_out.orders = <<>>

\* The quantity the margin after the two limits buys is below 0.001
BelowMinQuantity ==
    /\ risk_out.status \notin {"none", "total_limit"}
    /\ risk_out.after_total_limit * risk_in.decision.leverage
         < (MIN_QUANTITY \div (QTY \div USD)) * risk_in.price

\* C35: a computed quantity below 0.001 is raised to 0.001 and the margin
\* recomputed as 0.001 x price / leverage; the open is rejected, with no
\* order, if that margin exceeds available_balance or max_trade_amount, and
\* otherwise goes on with the recomputed margin.
C35_MinimumQuantityFloor ==
    BelowMinQuantity =>
        LET needed == (MIN_QUANTITY * risk_in.price)
                         \div (risk_in.decision.leverage * (QTY \div USD))
            refused == \/ needed > risk_in.account.available_balance
                       \/ needed > risk_out.max_trade_amount
        IN  /\ risk_out.quantity = MIN_QUANTITY
            /\ refused =>
                  /\ risk_out.status \in {"min_unaffordable", "min_exceeds_limit"}
                  /\ risk_out.orders = <<>>
            /\ ~refused =>
                  /\ risk_out.status \notin {"min_unaffordable", "min_exceeds_limit"}
                  /\ risk_out.position_size_usd = needed
                  /\ risk_out.status = "admitted" =>
                        /\ Len(risk_out.orders) = 1
                        /\ risk_out.orders[1].quantity = MIN_QUANTITY

\* A minimum order refused because its margin exceeds the single-trade
\* ceiling although the balance could pay it
C35_Witness ==
    /\ BelowMinQuantity
    /\ risk_out.status = "min_exceeds_limit"
    /\ MarginOf(MIN_QUANTITY, risk_in.price, risk_in.decision.leverage)
         <= risk_in.account.available_balance
    /\ risk_out.orders = <<>>

---------------------------------------------------------------------------
(* Properties of the trade ledger (SpecLedger) *)

LedgerLog(k) == entry_log[LedgerAgent][k]

\* The ClosedTrade a step of the ledger agent appended, if it appended one
AppendedTrade == trade_history'[LedgerAgent][Len(trade_history'[LedgerAgent])]

\* C11: the ClosedTrade record_close_position appends carries the entry
\* price and the leverage of the open entry, and its pnl_usdt is
\* (close_price - entry_price) * quantity * leverage for a long and
\* (entry_price - close_price) * quantity * leverage for a short; for a
\* close of the whole entry that is (C - P) * Q * L.
C11_PnlOfAppendedTrade ==
    [][Len(trade_history'[LedgerAgent]) > Len(trade_history[LedgerAgent]) =>
          LET t == AppendedTrade
              e == open_positions[LedgerAgent][Key(t.symbol, t.side)]
          IN  /\ Len(trade_history'[LedgerAgent]) = Len(trade_history[LedgerAgent]) + 1
              /\ t.entry_price = e.entry_price
              /\ t.leverage = e.leverage
              /\ t.side = "long" =>
                    t.pnl_usdt = (t.close_price - e.entry_price) * t.quantity * e.leverage
              /\ t.side = "short" =>
                    t.pnl_usdt = (e.entry_price - t.close_price) * t.quantity * e.leverage
              /\ t.quantity = e.quantity =>
                    t.pnl_usdt = (IF t.side = "long" THEN 1 ELSE -1)
                                   * (t.close_price - e.entry_price) * e.quantity * e.leverage
    ]_vars

\* The ledger holds a short closed whole at a profit and a long closed
\* whole at a loss, both at leverage 10
C11_Witness ==
    \E i, j \in DOMAIN trade_history[LedgerAgent] :
        LET s == trade_history[LedgerAgent][i]
            l == trade_history[LedgerAgent][j]
        IN  /\ s.side = "short" /\ s.pnl_usdt > 0 /\ s.leverage = 10
            /\ s.quantity = Ticks(MIN_QUANTITY)
            /\ l.side = "long" /\ l.pnl_usdt < 0 /\ l.leverage = 10
            /\ l.quantity = Ticks(MIN_QUANTITY)

\* The step is a record_close_position for key k
RecordCloseCall(k) ==
    entry_log'[LedgerAgent][k].calls = entry_log[LedgerAgent][k].calls + 1

\* C23: record_close_position called when no open entry exists under the key
\* returns None and leaves open_positions and trade_history as they were; it
\* writes no file.
C23_CloseOfMissingEntryIsNoOp ==
    [][\A k \in Keys :
          (RecordCloseCall(k) /\ k \notin DOMAIN open_positions[LedgerAgent]) =>
              /\ entry_log'[LedgerAgent][k].last_closed = 0
              /\ open_positions' = open_positions
              /\ trade_history' = trade_history
              /\ store' = store]_vars

\* record_close_position was called for a key that never had an entry, on a
\* logger that has not written its trades file
C23_Witness ==
    \E k \in Keys :
        /\ entry_log[LedgerAgent][k].calls > 0
        /\ entry_log[LedgerAgent][k].opened = 0
        /\ store[LedgerAgent].trades_file = NoFile

\* No entry holds a negative quantity, and every ClosedTrade closed
\* min(open quantity, requested quantity)
C10_ClampedClose ==
    \A k \in Keys :
        /\ k \in DOMAIN open_positions[LedgerAgent] =>
               open_positions[LedgerAgent][k].quantity >= 0
        /\ (LedgerLog(k).last_closed > 0 /\ LedgerLog(k).last_requested # None) =>
               LedgerLog(k).last_closed =
                   Min(LedgerLog(k).last_open, LedgerLog(k).last_requested[1])
        /\ (LedgerLog(k).last_closed > 0 /\ LedgerLog(k).last_requested = None) =>
               LedgerLog(k).last_closed = LedgerLog(k).last_open

\* C10 as stated: record_close_position never leaves a negative quantity,
\* closes min(open, requested), and once the requested quantities of the
\* closes on an entry sum to more than its open quantity the ClosedTrade
\* quantities for it sum to exactly the quantity it was opened with.
C10_ClosesSumToOpened ==
    /\ C10_ClampedClose
    /\ \A k \in Keys :
           LedgerLog(k).requested > LedgerLog(k).opened =>
               LedgerLog(k).closed = LedgerLog(k).opened

\* C10 amended: as stated, except that the ClosedTrade quantities sum to the
\* opened quantity less at most 1e-9: an entry left with a remainder of at
\* most 1e-9 is deleted without a ClosedTrade for that remainder.
C10_ClosesSumToOpenedWithinEpsilon ==
    /\ C10_ClampedClose
    /\ \A k \in Keys :
           /\ LedgerLog(k).closed <= LedgerLog(k).opened
           /\ LedgerLog(k).requested > LedgerLog(k).opened =>
                  /\ LedgerLog(k).opened - LedgerLog(k).closed <= QTY_EPSILON
                  /\ k \notin DOMAIN open_positions[LedgerAgent]

\* Two partial closes on one entry, the second asking for more than was left
\* and clamped to the remainder
C10_Witness ==
    \E k \in Keys :
        /\ LedgerLog(k).calls >= 2
        /\ LedgerLog(k).requested > LedgerLog(k).opened
        /\ LedgerLog(k).last_requested # None
        /\ LedgerLog(k).last_closed > 0
        /\ LedgerLog(k).last_closed < LedgerLog(k).last_requested[1]
        /\ LedgerLog(k).closed > LedgerLog(k).last_closed
        /\ LedgerLog(k).closed = LedgerLog(k).opened

\* C36: record_close_position on an existing entry deletes it when
\* open_quantity - closed quantity <= 1e-9; otherwise the entry stays under
\* its key with the quantity reduced by exactly the closed quantity and the
\* same entry_price, leverage and open_time; entries under other keys are
\* not touched.
C36_CloseFrameEffect ==
    [][\A k \in Keys :
          (RecordCloseCall(k) /\ k \in DOMAIN open_positions[LedgerAgent]) =>
              LET e == open_positions[LedgerAgent][k]
                  closed == entry_log'[LedgerAgent][k].last_closed
                  after == open_positions'[LedgerAgent]
              IN  /\ e.quantity - closed <= QTY_EPSILON => k \notin DOMAIN after
                  /\ e.quantity - closed > QTY_EPSILON =>
                        /\ k \in DOMAIN after
                        /\ after[k].quantity = e.quantity - closed
                        /\ after[k].entry_price = e.entry_price
                        /\ after[k].leverage = e.leverage
                        /\ after[k].open_time = e.open_time
                  /\ DOMAIN after \ {k} = DOMAIN open_positions[LedgerAgent] \ {k}
                  /\ \A j \in DOMAIN after \ {k} :
                        after[j] = open_positions[LedgerAgent][j]]_vars

\* A long and a short are open; the long was closed in part and is still
\* there, and an entry closed down to a remainder of 1e-9 or less is gone
C36_Witness ==
    LET long == Key("BTCUSDT", "long")
        short == Key("BTCUSDT", "short")
    IN  /\ long \in DOMAIN open_positions[LedgerAgent]
        /\ LedgerLog(long).last_closed > 0
        /\ open_positions[LedgerAgent][long].quantity
              = LedgerLog(long).opened - LedgerLog(long).closed
        /\ short \notin DOMAIN open_positions[LedgerAgent]
        /\ LedgerLog(short).last_closed > 0
        /\ LedgerLog(short).last_closed < LedgerLog(short).last_open

RECURSIVE ClosedQuantity(_, _)
\* The sum of the quantities of the ClosedTrades of a history for key k
ClosedQuantity(history, k) ==
    IF history = <<>> THEN 0
    ELSE (IF Key(Head(history).symbol, Head(history).side) = k
          THEN Head(history).quantity ELSE 0)
           + ClosedQuantity(Tail(history), k)

\* C37: after any sequence of record_open_position and record_close_position
\* calls on a key, the quantity left in its entry (0 if there is none) plus
\* the quantities of the ClosedTrades recorded for the key equals the sum of
\* the quantities passed to record_open_position for the key.
C37_QuantityConservation ==
    \A k \in Keys :
        (IF k \in DOMAIN open_positions[LedgerAgent]
         THEN open_positions[LedgerAgent][k].quantity ELSE 0)
          + ClosedQuantity(trade_history[LedgerAgent], k)
          = LedgerLog(k).opened_total

---------------------------------------------------------------------------
(* Properties of the logger and its files (SpecStore) *)

\* s is a prefix of t
IsPrefix(s, t) == Len(s) <= Len(t) /\ \A i \in DOMAIN s : t[i] = s[i]

\* The step is a record_close_position for an accepted close order, and
\* the call returns
RecordCloseStep ==
    /\ store_log'.last_op = "record_close"
    /\ store_log'.returned = "ok"
    /\ now' = now + 1

\* C12: every close whose order the venue accepted is recorded: exactly one
\* ClosedTrade is appended to trade_history and the open entry of the
\* position is reduced or deleted, also after a restart of the process.
C12_SubmittedCloseIsRecorded ==
    [][RecordCloseStep =>
          /\ Len(trade_history'[StoreAgent]) = Len(trade_history[StoreAgent]) + 1
          /\ StoreKey \in DOMAIN open_positions[StoreAgent]
          /\ StoreKey \notin DOMAIN open_positions'[StoreAgent]]_vars

\* C13: when a method of the logger that saves the trade history or the
\* equity history returns normally, the file holds what the memory holds: a
\* failed save is not passed over in silence.
C13_SaveFailureNotSwallowed ==
    store_log.returned = "ok" =>
        /\ store_log.last_op = "record_close" =>
              Durable(store[StoreAgent].trades_file) = trade_history[StoreAgent]
        /\ store_log.last_op \in {"log_decision", "log_remote_strategy"} =>
              Durable(store[StoreAgent].equity_file) = store[StoreAgent].equity_history

\* C14: after the process died inside a save of the trade history or of the
\* equity history, the next process loads every entry the file held when
\* that save began.
C14_DurableEntriesSurviveCrash ==
    store_log.recovered =>
        /\ IsPrefix(store_log.durable_trades, trade_history[StoreAgent])
        /\ IsPrefix([i \in DOMAIN store_log.durable_equity |->
                        EnsureEquityEntryFields(store_log.durable_equity[i])],
                    store[StoreAgent].equity_history)

\* C15: a logger constructed from the files of a previous process, none of
\* whose writes failed, holds the net deposits, the last equity and the last
\* unrealized profit the previous process ended with.
C15_RestartKeepsCashFlowBaseline ==
    (store_log.last_op = "restart" /\ store_log.faults = 0) =>
        /\ store[StoreAgent].net_deposits = store_log.prev.net_deposits
        /\ store[StoreAgent].last_equity = store_log.prev.last_equity
        /\ store[StoreAgent].last_unrealized = store_log.prev.last_unrealized

\* C16: no trade is in the realized_change of two log_decision calls, and
\* once a log_decision has returned every trade appended before it has been
\* in exactly one.
C16_TradeCountedExactlyOnce ==
    /\ \A i \in DOMAIN store_log.appended : store_log.appended[i].count <= 1
    /\ (store_log.last_op = "log_decision" /\ store_log.returned = "ok") =>
          \A i \in DOMAIN store_log.appended : store_log.appended[i].count = 1

\* The files hold what completed saves wrote
FilesIntact(st) == st.trades_file.state # "torn" /\ st.equity_file.state # "torn"

\* The logger a new process constructs, saved again
Resaved(st) ==
    LET c == Constructed(st)
    IN  SaveEquityHistory(SaveTradeHistory(c, LoadTradeHistory(st), "ok"), "ok")

\* Entry n has every key of entry e with e's value
KeepsFields(e, n) == e.keys \subseteq n.keys /\ \A k \in e.keys : n[k] = e[k]

\* C17: loading the persisted histories and saving them again loses no trade
\* and no equity entry and changes no field an entry had, and loading the
\* files saved again yields the same histories once more.
C17_ReloadIsIdempotent ==
    LET st == store[StoreAgent]
        once == Resaved(st)
        twice == Resaved(once)
    IN  FilesIntact(st) =>
          /\ once.trades_file.content = Durable(st.trades_file)
          /\ Len(once.equity_file.content) = Len(Durable(st.equity_file))
          /\ \A i \in DOMAIN Durable(st.equity_file) :
                KeepsFields(st.equity_file.content[i], once.equity_file.content[i])
          /\ twice.trades_file = once.trades_file
          /\ twice.equity_file = once.equity_file
          /\ Constructed(once).equity_history = Constructed(st).equity_history

\* A process restarted on a trades file with a trade and on an equity file
\* that holds an entry of log_decision and an entry of log_remote_strategy
C17_Witness ==
    LET st == store[StoreAgent]
    IN  /\ store_log.last_op = "restart"
        /\ FilesIntact(st)
        /\ Len(Durable(st.trades_file)) > 0
        /\ \E i \in DOMAIN Durable(st.equity_file) :
              st.equity_file.content[i].keys = EquityKeys
        /\ \E i \in DOMAIN Durable(st.equity_file) :
              "net_deposits" \notin st.equity_file.content[i].keys

\* The external cash flow log_decision infers from the runtime state st, the
\* trade history and the balances it was handed
InferredCashFlow(st, history, equity, unrealized) ==
    LET equity_delta == equity - st.last_equity[1]
        realized_change == SumPnl(history, st.last_logged_trade_index)
        unrealized_delta ==
            unrealized - (IF st.last_unrealized = None THEN 0 ELSE st.last_unrealized[1])
        x == equity_delta - realized_change - unrealized_delta
    IN  IF st.last_equity = None THEN 0
        ELSE IF Abs(x) * MICRO_USD_PER_MONEY_UNIT < CASH_FLOW_EPSILON THEN 0
        ELSE x

\* C25: a log_decision with a baseline infers external_cash_flow =
\* equity_delta - realized_change - unrealized_delta (0 below 1e-6) and adds
\* it to net_deposits; without a baseline it infers 0 and leaves net_deposits;
\* the appended point has adjusted equity = gross equity - net_deposits.
C25_CashFlowInference ==
    [][(store_log'.last_op = "log_decision"
          /\ store_log'.returned \in {"ok", "crashed"}) =>
         LET st == store[StoreAgent]
             after == store'[StoreAgent]
             point == after.equity_history[Len(after.equity_history)]
             flow == InferredCashFlow(st, trade_history[StoreAgent],
                                      point.gross_equity, point.unrealized_pnl)
         IN  /\ Len(after.equity_history) = Len(st.equity_history) + 1
             /\ point.external_cash_flow = flow
             /\ after.net_deposits = st.net_deposits + flow
             /\ st.last_equity = None =>
                   point.external_cash_flow = 0 /\ after.net_deposits = st.net_deposits
             /\ point.net_deposits = after.net_deposits
             /\ point.adjusted_equity = point.gross_equity - after.net_deposits]_vars

\* A log_decision with a baseline has run after a trade was appended, and it
\* inferred a cash flow that is not zero
C25_Witness ==
    LET st == store[StoreAgent]
        n == Len(st.equity_history)
    IN  /\ store_log.last_op = "log_decision"
        /\ store_log.returned = "ok"
        /\ n >= 2
        /\ st.equity_history[n - 1].keys = EquityKeys
        /\ st.equity_history[n].external_cash_flow # 0
        /\ st.net_deposits # 0
        /\ \E i \in DOMAIN trade_history[StoreAgent] :
              /\ trade_history[StoreAgent][i].close_time > st.equity_history[n - 1].cycle
              /\ PnlMoney(trade_history[StoreAgent][i]) # 0

\* C39: on an account whose equity changes only through the agent's own
\* trades, every equity point log_decision appends has external_cash_flow 0
\* and net_deposits 0.
C39_NoCashFlowWithoutDeposits ==
    \A i \in DOMAIN store[EquityAgent].equity_history :
        /\ store[EquityAgent].equity_history[i].external_cash_flow = 0
        /\ store[EquityAgent].equity_history[i].net_deposits = 0

---------------------------------------------------------------------------
(* Properties of the close-quantity resolution (SpecClose) *)

\* The fields given are numbers
CloseFieldsNumeric ==
    /\ close_in.decision.close_quantity.present => close_in.decision.close_quantity.valid
    /\ close_in.decision.close_quantity_pct.present =>
          close_in.decision.close_quantity_pct.valid

\* min(position_amt, max(0, q))
ClampedTo(q, position_amt) == Min(position_amt, Max(0, q))

\* C20: the quantity the call closes is the absolute close_quantity when that
\* field is given, whatever close_quantity_pct says; otherwise position_amt
\* times the percentage, read as a fraction up to 1 and as a percentage above
\* 1; both clamped to [0, position_amt]; and the whole position when neither
\* field is given.
C20_CloseQuantityResolution ==
    (close_out.status # "none" /\ CloseFieldsNumeric) =>
        LET d == close_in.decision
            amt == close_in.position_amt
            pct == IF d.close_quantity_pct.value > PCT
                   THEN d.close_quantity_pct.value \div 100
                   ELSE d.close_quantity_pct.value
        IN  close_out.closed =
              IF d.close_quantity.present
              THEN ClampedTo(d.close_quantity.value, amt)
              ELSE IF d.close_quantity_pct.present
              THEN ClampedTo(MulDiv(amt, pct, PCT), amt)
              ELSE amt

\* The quantity the decision's fields ask for, before the clamp: the absolute
\* close_quantity, else position_amt times the percentage
AskedCloseQuantity ==
    LET d == close_in.decision
        pct == IF d.close_quantity_pct.value > PCT
               THEN d.close_quantity_pct.value \div 100
               ELSE d.close_quantity_pct.value
    IN  IF d.close_quantity.present THEN d.close_quantity.value
        ELSE MulDiv(close_in.position_amt, pct, PCT)

\* C21: a close intent that gives close_quantity or close_quantity_pct and
\* whose resolved quantity is not above 1e-12 (a zero or negative quantity, a
\* zero or negative percentage) is rejected: no close order is submitted.
C21_TooSmallCloseRejected ==
    (/\ close_out.status # "none"
     /\ CloseFieldsNumeric
     /\ close_in.decision.close_quantity.present
          \/ close_in.decision.close_quantity_pct.present
     /\ AskedCloseQuantity <= 0)
        => close_out.status = "skipped" /\ close_out.closed = 0

=============================================================================
